---- MODULE Spec2Model ----
(***************************************************************************)
(* hideDot: the link reconciliation engine of src/src/main.go.             *)
(*                                                                         *)
(* A path string is a sequence of tokens: the separator "/" or a name      *)
(* (a name is never split, so "~user" is the single token "~user").        *)
(* The filesystem maps keys (sequences of names below the root) to nodes.  *)
(***************************************************************************)
EXTENDS Integers, Sequences, FiniteSets, TLC

(***************************************************************************)
(* Bounds of the model.                                                    *)
(***************************************************************************)
\* commands run one after the other in one behaviour
MaxRuns == 2
\* symbolic links followed while resolving one path before ELOOP
MaxHops == 3

(***************************************************************************)
(* path/filepath on token strings                                          *)
(***************************************************************************)
Sep == "/"

\* filepath.IsAbs
IsAbs(p) == Len(p) > 0 /\ p[1] = Sep

\* the elements of a path string, separators dropped
Split(p) == SelectSeq(p, LAMBDA t : t # Sep)

RECURSIVE JoinElems(_)
JoinElems(elems) ==
    IF elems = << >> THEN << >>
    ELSE IF Len(elems) = 1 THEN elems
    ELSE <<Head(elems), Sep>> \o JoinElems(Tail(elems))

RECURSIVE CleanElems(_, _, _)
CleanElems(todo, out, rooted) ==
    IF todo = << >> THEN out
    ELSE LET e == Head(todo)
             rest == Tail(todo)
         IN  IF e = "." THEN CleanElems(rest, out, rooted)
             ELSE IF e = ".."
                  THEN IF out # << >> /\ out[Len(out)] # ".."
                       THEN CleanElems(rest, SubSeq(out, 1, Len(out) - 1), rooted)
                       ELSE IF rooted THEN CleanElems(rest, out, rooted)
                       ELSE CleanElems(rest, Append(out, e), rooted)
                  ELSE CleanElems(rest, Append(out, e), rooted)

\* filepath.Clean
Clean(p) ==
    IF p = << >> THEN <<".">>
    ELSE LET out == CleanElems(Split(p), << >>, IsAbs(p))
         IN  IF IsAbs(p) THEN <<Sep>> \o JoinElems(out)
             ELSE IF out = << >> THEN <<".">> ELSE JoinElems(out)

\* filepath.Join of two elements
Join(a, b) ==
    IF a = << >> /\ b = << >> THEN << >>
    ELSE IF a = << >> THEN Clean(b)
    ELSE IF b = << >> THEN Clean(a)
    ELSE Clean(a \o <<Sep>> \o b)

\* index of the last separator of p, 0 when there is none
LastSep(p) ==
    LET idx == {i \in 1..Len(p) : p[i] = Sep}
    IN  IF idx = {} THEN 0 ELSE CHOOSE i \in idx : \A j \in idx : j <= i

\* filepath.Dir
Dir(p) == Clean(SubSeq(p, 1, LastSep(p)))

RECURSIVE StripTrailingSep(_)
StripTrailingSep(p) ==
    IF Len(p) > 0 /\ p[Len(p)] = Sep
    THEN StripTrailingSep(SubSeq(p, 1, Len(p) - 1))
    ELSE p

\* filepath.Base
Base(p) ==
    IF p = << >> THEN <<".">>
    ELSE LET q == StripTrailingSep(p)
         IN  IF q = << >> THEN <<Sep>>
             ELSE SubSeq(q, LastSep(q) + 1, Len(q))

\* the process environment: home directory, working directory
homeDir == <<Sep, "h">>
execDir == <<Sep, "s">>

\* filepath.Abs
Abs(p) == IF IsAbs(p) THEN Clean(p) ELSE Join(execDir, p)

\* expandPath taking every leading "~..." name for the home directory
expandAnyTilde(path, home) ==
    IF path # << >> /\ path[1] \in {"~", "~user"} THEN Join(home, Tail(path)) ELSE path

\* expandPath(path, home)
expandPath(path, home) ==
    IF path = <<"~">> THEN home
    ELSE IF Len(path) >= 2 /\ SubSeq(path, 1, 2) = <<"~", Sep>>
         THEN Join(home, SubSeq(path, 3, Len(path)))
         ELSE path

\* expandSourcePath(path, home, execDir)
expandSourcePath(path, home, dir) ==
    LET q == expandPath(path, home)
    IN  IF IsAbs(q) THEN q ELSE Join(dir, q)

(***************************************************************************)
(* The filesystem: a finite map from keys to nodes. A key is the sequence  *)
(* of names from the root; a key outside the map is an absent path. A file *)
(* carries its content c (0: empty), a symbolic link its stored            *)
(* destination d (a path string). A directory of mode 0555, in which the   *)
(* process may not add or remove entries, carries c = 1.                   *)
(***************************************************************************)
Absent == [t |-> "absent", c |-> 0, d |-> << >>]
DirN == [t |-> "dir", c |-> 0, d |-> << >>]
DirRO == [t |-> "dir", c |-> 1, d |-> << >>]
File(c) == [t |-> "file", c |-> c, d |-> << >>]
Link(d) == [t |-> "link", c |-> 0, d |-> d]

Root == << >>

NodeAt(f, k) ==
    IF k = Root THEN DirN ELSE IF k \in DOMAIN f THEN f[k] ELSE Absent

ParentKey(k) == IF k = Root THEN Root ELSE SubSeq(k, 1, Len(k) - 1)

IsUnder(c, k) == Len(c) > Len(k) /\ SubSeq(c, 1, Len(k)) = k

\* the names of the entries of directory k
Entries(f, k) == {c[Len(c)] : c \in {x \in DOMAIN f : IsUnder(x, k) /\ Len(x) = Len(k) + 1}}

Put(f, k, n) == [x \in DOMAIN f \cup {k} |-> IF x = k THEN n ELSE f[x]]

Drop(f, ks) == [x \in DOMAIN f \ ks |-> f[x]]

\* entries may be added to and removed from directory k (else EACCES)
CanChange(f, k) == NodeAt(f, k).c = 0

\* what os.RemoveAll gets rid of: an entry of a directory that allows it, once
\* everything below the entry is gone
RECURSIVE Removable(_, _)
Removable(f, k) ==
    /\ CanChange(f, ParentKey(k))
    /\ \A x \in DOMAIN f : (IsUnder(x, k) /\ Len(x) = Len(k) + 1) => Removable(f, x)

\* the key of the working directory of the process
CwdKey == Split(execDir)

(***************************************************************************)
(* Path resolution as the kernel does it: every intermediate symbolic link *)
(* is followed, the last one only when follow is set. The result names the *)
(* key reached; for ENOENT, creatable tells that only the last element is  *)
(* missing (key is then where it would be created).                        *)
(***************************************************************************)
WalkRes(e, k, cr) == [err |-> e, key |-> k, creatable |-> cr]

RECURSIVE Walk(_, _, _, _, _)
Walk(f, cur, todo, follow, fuel) ==
    IF todo = << >> THEN WalkRes("ok", cur, FALSE)
    ELSE LET n == Head(todo)
             rest == Tail(todo)
         IN  IF n = "." THEN Walk(f, cur, rest, follow, fuel)
             ELSE IF n = ".." THEN Walk(f, ParentKey(cur), rest, follow, fuel)
             ELSE LET k == Append(cur, n)
                      nd == NodeAt(f, k)
                  IN  IF nd.t = "absent"
                      THEN WalkRes("ENOENT", k, rest = << >>)
                      ELSE IF nd.t = "link" /\ (rest # << >> \/ follow)
                      THEN IF fuel = 0 THEN WalkRes("ELOOP", k, FALSE)
                           ELSE Walk(f, IF IsAbs(nd.d) THEN Root ELSE cur,
                                     Split(nd.d) \o rest, follow, fuel - 1)
                      ELSE IF rest = << >> THEN WalkRes("ok", k, FALSE)
                      ELSE IF nd.t = "dir" THEN Walk(f, k, rest, follow, fuel)
                      ELSE WalkRes("ENOTDIR", k, FALSE)

Resolve(f, p, follow) ==
    IF p = << >> THEN WalkRes("ENOENT", Root, FALSE)
    ELSE Walk(f, IF IsAbs(p) THEN Root ELSE CwdKey, Split(p), follow, MaxHops)

\* a value bound to a name for the rest of a function body (Go's :=)
Bind(v, K(_)) == K(v)

\* what a stat call returns for a resolved path
StatRes(f, r) ==
    [err |-> r.err, key |-> r.key,
     node |-> IF r.err = "ok" THEN NodeAt(f, r.key) ELSE Absent]

\* os.Lstat: err is "ok" or the errno; node is what was found
Lstat(f, p) == StatRes(f, Resolve(f, p, FALSE))

\* os.Stat
Stat(f, p) == StatRes(f, Resolve(f, p, TRUE))

\* os.IsNotExist
IsNotExist(e) == e = "ENOENT"

\* the result of a mutating call: the filesystem after it, and whether it failed
Res(f, failed) == [fs |-> f, err |-> failed]

\* os.Remove refusing every path
RemoveRefused(f, p) == Res(f, TRUE)

\* os.Remove: a file, a link or an empty directory
Remove(f, p) ==
    Bind(Lstat(f, p), LAMBDA r :
        IF r.err # "ok" \/ r.key = Root THEN Res(f, TRUE)
        ELSE IF r.node.t = "dir" /\ Entries(f, r.key) # {} THEN Res(f, TRUE)
        ELSE IF ~CanChange(f, ParentKey(r.key)) THEN Res(f, TRUE)
        ELSE Res(Drop(f, {r.key}), FALSE))

\* os.RemoveAll: the path and everything below it; an absent path is no error,
\* and what cannot be removed stays while the rest goes
RemoveAll(f, p) ==
    Bind(Lstat(f, p), LAMBDA r :
        IF IsNotExist(r.err) THEN Res(f, FALSE)
        ELSE IF r.err # "ok" \/ r.key = Root THEN Res(f, TRUE)
        ELSE Res(Drop(f, {x \in DOMAIN f : (x = r.key \/ IsUnder(x, r.key)) /\ Removable(f, x)}),
                 ~Removable(f, r.key)))

\* a new node n at path p, which must not exist while its parent does
MakeNode(f, r, n) ==
    IF r.err = "ENOENT" /\ r.creatable /\ CanChange(f, ParentKey(r.key))
    THEN Res(Put(f, r.key, n), FALSE)
    ELSE Res(f, TRUE)

\* os.Symlink(oldname, newname)
Symlink(f, oldname, newname) == MakeNode(f, Resolve(f, newname, FALSE), Link(oldname))

\* os.Mkdir
Mkdir(f, p) == MakeNode(f, Resolve(f, p, FALSE), DirN)

\* os.MkdirAll creating the last directory alone
MkdirOne(f, p) == Mkdir(f, p)

\* os.MkdirAll: stat first, then the parent (lexically), then the directory
RECURSIVE MkdirAll(_, _)
MkdirAll(f, p) ==
    Bind(Stat(f, p), LAMBDA st :
        IF st.err = "ok" THEN Res(f, st.node.t # "dir")
        ELSE Bind(StripTrailingSep(p), LAMBDA q :
             Bind(IF LastSep(q) > 1 THEN MkdirAll(f, SubSeq(q, 1, LastSep(q) - 1))
                  ELSE Res(f, FALSE), LAMBDA up :
                 IF up.err THEN up
                 ELSE Bind(Mkdir(up.fs, p), LAMBDA mk :
                      Bind(Lstat(up.fs, p), LAMBDA ls :
                          IF mk.err /\ ls.err = "ok" /\ ls.node.t = "dir"
                          THEN Res(up.fs, FALSE)
                          ELSE mk)))))

\* os.ReadDir: the directory is opened through symbolic links
ReadDir(f, p) ==
    Bind(Stat(f, p), LAMBDA st :
        IF st.err = "ok" /\ st.node.t = "dir"
        THEN [err |-> FALSE, key |-> st.key, names |-> Entries(f, st.key)]
        ELSE [err |-> TRUE, key |-> st.key, names |-> {}])

\* os.Create: O_CREATE|O_TRUNC through symbolic links
Create(f, p) ==
    Bind(Resolve(f, p, TRUE), LAMBDA r :
        IF \/ r.err = "ok" /\ NodeAt(f, r.key).t = "file"
           \/ r.err = "ENOENT" /\ r.creatable /\ CanChange(f, ParentKey(r.key))
        THEN [fs |-> Put(f, r.key, File(0)), err |-> FALSE, key |-> r.key]
        ELSE [fs |-> f, err |-> TRUE, key |-> r.key])

\* copyFile(src, dst)
copyFile(f, src, dst) ==
    Bind(Stat(f, src), LAMBDA op :
        IF op.err # "ok" THEN Res(f, TRUE)
        ELSE Bind(MkdirAll(f, Dir(dst)), LAMBDA md :
            IF md.err THEN md
            ELSE Bind(Create(md.fs, dst), LAMBDA cr :
                IF cr.err THEN Res(cr.fs, TRUE)
                ELSE Bind(NodeAt(cr.fs, op.key), LAMBDA srcNow :
                    IF srcNow.t # "file" THEN Res(cr.fs, TRUE)
                    ELSE Res(Put(cr.fs, cr.key, File(srcNow.c)), FALSE)))))

\* every name of the model in the order os.ReadDir lists entries (by file name)
NameOrder ==
    <<".hidedot-backups", "a", "a_3c56d6b5", "a_497cb41b", "a_8ceca28c", "a_8d02f763",
      "a_ffffffff", "b", "b_d5b98236", "d", "e", "f", "g", "h", "l", "s", "x", "y", "z">>

Rank(n) ==
    IF \E i \in 1..Len(NameOrder) : NameOrder[i] = n
    THEN CHOOSE i \in 1..Len(NameOrder) : NameOrder[i] = n
    ELSE 0

RECURSIVE SortNames(_)
SortNames(S) ==
    IF S = {} THEN << >>
    ELSE Bind(CHOOSE n \in S : \A o \in S : Rank(n) <= Rank(o), LAMBDA m :
             <<m>> \o SortNames(S \ {m}))

\* copyDir(src, dst): stops at the first entry that fails
RECURSIVE copyDir(_, _, _)
RECURSIVE copyEntries(_, _, _, _)
copyEntries(f, src, dst, names) ==
    IF names = << >> THEN Res(f, FALSE)
    ELSE Bind(IF Lstat(f, Join(src, <<Head(names)>>)).node.t = "dir"
              THEN copyDir(f, Join(src, <<Head(names)>>), Join(dst, <<Head(names)>>))
              ELSE copyFile(f, Join(src, <<Head(names)>>), Join(dst, <<Head(names)>>)),
              LAMBDA one :
                  IF one.err THEN one ELSE copyEntries(one.fs, src, dst, Tail(names)))

copyDir(f, src, dst) ==
    Bind(Stat(f, src), LAMBDA st :
        IF st.err # "ok" THEN Res(f, TRUE)
        ELSE Bind(MkdirAll(f, dst), LAMBDA md :
            IF md.err THEN md
            ELSE Bind(ReadDir(md.fs, src), LAMBDA rd :
                IF rd.err THEN Res(md.fs, TRUE)
                ELSE copyEntries(md.fs, src, dst, SortNames(rd.names)))))

(***************************************************************************)
(* Logger. A world w carries the filesystem, the dry-run flag, the three   *)
(* counters and the narration: every call of the logger, in order, as      *)
(* <<level, message, path>> (whether it is printed depends on quiet and    *)
(* verbose alone) and, in out, the lines it has printed, each with its     *)
(* prefix and colour. It also keeps count of the actions handed to execute *)
(* that returned an error (failures), which the program itself does not.   *)
(***************************************************************************)
Say(w, level, msg, p) == [w EXCEPT !.narr = Append(@, <<level, msg, p>>)]

\* Logger.log: one line on standard output, unless quiet
log(w, colour, msg) ==
    IF w.quiet THEN w
    ELSE [w EXCEPT !.out = Append(@, <<IF w.dryRun THEN "[DRY RUN] ==>" ELSE "==>",
                                       IF w.useColors THEN colour ELSE "", msg>>)]

\* Logger.info
info(w, msg, p) ==
    IF w.quiet THEN Say(w, "info", msg, p) ELSE log(Say(w, "info", msg, p), "Blue", msg)

\* Logger.debug
debug(w, msg, p) ==
    IF ~w.verbose \/ w.quiet THEN Say(w, "debug", msg, p)
    ELSE log(Say(w, "debug", msg, p), "Magenta", msg)

\* Logger.success
success(w, msg, p) ==
    Bind([Say(w, "success", msg, p) EXCEPT !.successCount = @ + 1], LAMBDA w1 :
        IF w1.quiet THEN w1 ELSE log(w1, "Green", msg))

\* Logger.warn leaving under quiet before it counts
warnUnlessQuiet(w, msg, p) ==
    IF w.quiet THEN Say(w, "warn", msg, p)
    ELSE log([Say(w, "warn", msg, p) EXCEPT !.warnCount = @ + 1], "Yellow", msg)

\* Logger.warn
warn(w, msg, p) ==
    Bind([Say(w, "warn", msg, p) EXCEPT !.warnCount = @ + 1], LAMBDA w1 :
        IF w1.quiet THEN w1 ELSE log(w1, "Yellow", msg))

\* Logger.error counting a warning
errorAsWarning(w, msg, p) == [Say(w, "error", msg, p) EXCEPT !.warnCount = @ + 1]

\* Logger.error
error(w, msg, p) == log([Say(w, "error", msg, p) EXCEPT !.errorCount = @ + 1], "Red", msg)

\* Logger.execute: under dry-run the action is not run and no error comes back
execute(w, r) == IF w.dryRun THEN Res(w.fs, FALSE) ELSE r

\* the world after an executed action
With(w, r) == [w EXCEPT !.fs = r.fs, !.failures = @ + (IF r.err THEN 1 ELSE 0)]

\* Logger, as Initialize creates it
NewLogger(f, dry) ==
    [fs |-> f, dryRun |-> dry, successCount |-> 0, warnCount |-> 0, errorCount |-> 0,
     narr |-> << >>, outcome |-> "none", backedUp |-> FALSE, failures |-> 0,
     quiet |-> FALSE, verbose |-> FALSE, useColors |-> TRUE, out |-> << >>]

\* App.Initialize: the Logger of the command, from the flags (on a terminal
\* that supports colours)
Initialize(f, fl) ==
    [NewLogger(f, fl.dryRun) EXCEPT !.quiet = fl.quiet, !.verbose = fl.verbose,
                                    !.useColors = ~fl.noColor]

\* checkPathExists
checkPathExists(f, p) ==
    Bind(Lstat(f, p), LAMBDA st :
        IF st.err # "ok"
        THEN [exists |-> FALSE, isDir |-> FALSE, err |-> ~IsNotExist(st.err)]
        ELSE [exists |-> TRUE, isDir |-> st.node.t = "dir", err |-> FALSE])

\* the first 8 hex digits of sha256 of the path string
Hash8(p) ==
    CASE p = <<Sep, "h", Sep, "a">> -> "8ceca28c"
      [] p = <<Sep, "h", Sep, "b">> -> "d5b98236"
      [] p = <<Sep, "h", Sep, "d", Sep, "a">> -> "3c56d6b5"
      [] p = <<Sep, "h", Sep, ".", Sep, "a">> -> "8d02f763"
      [] p = <<Sep, "h", Sep, "a", Sep>> -> "497cb41b"
      [] OTHER -> "ffffffff"

backupDir == Join(homeDir, <<".hidedot-backups">>)

\* App.getBackupPath
getBackupPath(targetPath) ==
    Join(backupDir, <<Base(targetPath)[1] \o "_" \o Hash8(targetPath)>>)

\* the destination a link stores, made absolute the way createLink compares it
AbsDest(dir, dest) == Abs(IF IsAbs(dest) THEN dest ELSE Join(dir, dest))

\* the world after logger.execute of an action whose error is dropped
Run(w, r) == With(w, execute(w, r))

\* App.checkForDuplicates keeping every entry
dupEntryKept(w, targetDir, entryPath, ent, targetPath, sourcePath) == w

\* App.checkForDuplicates: one entry of the directory
dupEntry(w, targetDir, entryPath, ent, targetPath, sourcePath) ==
    IF entryPath = targetPath THEN w
    ELSE IF ent.err = "ok" /\ ent.node.t = "link"
            /\ AbsDest(targetDir, ent.node.d) = sourcePath
    THEN Bind(warn(w, "Found duplicate symlink", entryPath), LAMBDA w1 :
             Run(w1, Remove(w1.fs, entryPath)))
    ELSE w

\* App.checkForDuplicates: the loop over the directory's entries
RECURSIVE dupLoop(_, _, _, _, _)
dupLoop(w, targetDir, names, targetPath, sourcePath) ==
    IF names = << >> THEN w
    ELSE dupLoop(dupEntry(w, targetDir, Join(targetDir, <<Head(names)>>),
                          Lstat(w.fs, Join(targetDir, <<Head(names)>>)),
                          targetPath, sourcePath),
                 targetDir, Tail(names), targetPath, sourcePath)

\* App.checkForDuplicates
checkForDuplicates(w, targetPath, sourcePath) ==
    Bind(ReadDir(w.fs, Dir(targetPath)), LAMBDA rd :
        IF rd.err THEN w
        ELSE dupLoop(w, Dir(targetPath), SortNames(rd.names), targetPath, sourcePath))

\* App.createBackup: the function handed to logger.execute
backupCopy(f, targetPath, backupPath, isDir) ==
    Bind(MkdirAll(f, Dir(backupPath)), LAMBDA md :
        IF md.err THEN md
        ELSE IF isDir THEN copyDir(md.fs, targetPath, backupPath)
        ELSE copyFile(md.fs, targetPath, backupPath))

\* App.createBackup
createBackup(w, targetPath, isDir) ==
    Bind(info(w, "Creating backup", targetPath), LAMBDA w1 :
    Bind(execute(w1, backupCopy(w1.fs, targetPath, getBackupPath(targetPath), isDir)),
         LAMBDA r :
    Bind([With(w1, r) EXCEPT !.backedUp = TRUE], LAMBDA w2 :
        IF r.err THEN error(w2, "Error creating backup", targetPath) ELSE w2)))

\* App.createLink, the last step: os.Symlink
createSymlink(w, targetPath, sourcePath, how) ==
    Bind(info(w, "Creating symlink", targetPath), LAMBDA w1 :
    Bind(execute(w1, Symlink(w1.fs, sourcePath, targetPath)), LAMBDA r :
    Bind(With(w1, r), LAMBDA w2 :
        IF r.err
        THEN [error(w2, "Error creating symlink", targetPath) EXCEPT !.outcome = "Failed"]
        ELSE IF ~w.dryRun
        THEN [success(w2, "Created symlink", targetPath) EXCEPT !.outcome = how]
        ELSE [w2 EXCEPT !.outcome = how])))

\* App.createLink keeping every link to another destination
reconcileSymlinkKept(w, targetPath, sourcePath, relink, currentTarget) ==
    IF currentTarget = sourcePath
    THEN [info(w, "Symlink already correct", targetPath)
             EXCEPT !.successCount = @ + 1, !.outcome = "AlreadyCorrect"]
    ELSE [info(w, "Existing symlink left unchanged", targetPath)
             EXCEPT !.outcome = "SkippedUnchangedNoRelink"]

\* App.createLink: the target is a symbolic link whose destination is currentTarget
reconcileSymlink(w, targetPath, sourcePath, relink, currentTarget) ==
    IF currentTarget = sourcePath
    THEN [info(w, "Symlink already correct", targetPath)
             EXCEPT !.successCount = @ + 1, !.outcome = "AlreadyCorrect"]
    ELSE IF relink
    THEN Bind(warn(w, "Relinking", targetPath), LAMBDA w1 :
             createSymlink(Run(w1, Remove(w1.fs, targetPath)),
                           targetPath, sourcePath, "Relinked"))
    ELSE [info(w, "Existing symlink left unchanged", targetPath)
             EXCEPT !.outcome = "SkippedUnchangedNoRelink"]

\* App.createLink: the target is not a symbolic link and force is set
overwriteTarget(w, targetPath, sourcePath, backup, isTargetDir) ==
    Bind(IF backup THEN createBackup(w, targetPath, isTargetDir) ELSE w, LAMBDA w1 :
    Bind(warn(w1, "Removing existing path (force=true)", targetPath), LAMBDA w2 :
        createSymlink(Run(w2, RemoveAll(w2.fs, targetPath)),
                      targetPath, sourcePath, "Overwritten")))

\* App.createLink overwriting whether force is set or not
reconcileTargetForced(w, targetPath, sourcePath, force, relink, backup) ==
    Bind(checkPathExists(w.fs, targetPath), LAMBDA tgt :
    Bind(Lstat(w.fs, targetPath), LAMBDA st :
        IF ~tgt.exists THEN createSymlink(w, targetPath, sourcePath, "Created")
        ELSE IF st.err = "ok" /\ st.node.t = "link"
        THEN reconcileSymlink(w, targetPath, sourcePath, relink,
                              AbsDest(Dir(targetPath), st.node.d))
        ELSE overwriteTarget(w, targetPath, sourcePath, backup, tgt.isDir)))

\* App.createLink, from the probe of the target on
reconcileTarget(w, targetPath, sourcePath, force, relink, backup) ==
    Bind(checkPathExists(w.fs, targetPath), LAMBDA tgt :
    Bind(Lstat(w.fs, targetPath), LAMBDA st :
        IF ~tgt.exists THEN createSymlink(w, targetPath, sourcePath, "Created")
        ELSE IF st.err = "ok" /\ st.node.t = "link"
        THEN reconcileSymlink(w, targetPath, sourcePath, relink,
                              AbsDest(Dir(targetPath), st.node.d))
        ELSE IF force
        THEN overwriteTarget(w, targetPath, sourcePath, backup, tgt.isDir)
        ELSE [warn(w, "Path exists and is not a symlink (use force=true)", targetPath)
                 EXCEPT !.outcome = "SkippedNotSymlinkNoForce"]))

\* App.createLink taking whatever is at the parent path for a directory
reconcileLinkAnyParent(w, targetPath, sourcePath, force, relink, backup) ==
    Bind(checkPathExists(w.fs, sourcePath), LAMBDA src :
    Bind(checkPathExists(w.fs, Dir(targetPath)), LAMBDA par :
        IF src.err
        THEN [error(w, "Error checking source path", sourcePath) EXCEPT !.outcome = "Failed"]
        ELSE IF ~src.exists
        THEN [error(w, "Source path does not exist", sourcePath)
                 EXCEPT !.outcome = "SkippedSourceMissing"]
        ELSE Bind(IF ~par.exists
                  THEN Bind(info(w, "Creating parent directory", Dir(targetPath)),
                            LAMBDA i : Run(i, MkdirAll(i.fs, Dir(targetPath))))
                  ELSE w, LAMBDA w1 :
                 reconcileTarget(checkForDuplicates(w1, targetPath, sourcePath),
                                 targetPath, sourcePath, force, relink, backup))))

\* App.createLink going on without the source
reconcileLinkUnchecked(w, targetPath, sourcePath, force, relink, backup) ==
    Bind(checkPathExists(w.fs, Dir(targetPath)), LAMBDA par :
        IF par.exists /\ ~par.isDir
        THEN [error(w, "Parent path exists but is not a directory", Dir(targetPath))
                 EXCEPT !.outcome = "SkippedParentInvalid"]
        ELSE Bind(IF ~par.exists
                  THEN Bind(info(w, "Creating parent directory", Dir(targetPath)),
                            LAMBDA i : Run(i, MkdirAll(i.fs, Dir(targetPath))))
                  ELSE w, LAMBDA w1 :
                 reconcileTarget(checkForDuplicates(w1, targetPath, sourcePath),
                                 targetPath, sourcePath, force, relink, backup)))

\* App.createLink, from the probe of the source on
reconcileLink(w, targetPath, sourcePath, force, relink, backup) ==
    Bind(checkPathExists(w.fs, sourcePath), LAMBDA src :
    Bind(checkPathExists(w.fs, Dir(targetPath)), LAMBDA par :
        IF src.err
        THEN [error(w, "Error checking source path", sourcePath) EXCEPT !.outcome = "Failed"]
        ELSE IF ~src.exists
        THEN [error(w, "Source path does not exist", sourcePath)
                 EXCEPT !.outcome = "SkippedSourceMissing"]
        ELSE IF par.exists /\ ~par.isDir
        THEN [error(w, "Parent path exists but is not a directory", Dir(targetPath))
                 EXCEPT !.outcome = "SkippedParentInvalid"]
        ELSE Bind(IF ~par.exists
                  THEN Bind(info(w, "Creating parent directory", Dir(targetPath)),
                            LAMBDA i : Run(i, MkdirAll(i.fs, Dir(targetPath))))
                  ELSE w, LAMBDA w1 :
                 reconcileTarget(checkForDuplicates(w1, targetPath, sourcePath),
                                 targetPath, sourcePath, force, relink, backup))))

\* App.createLink
createLink(w0, target, source, force, relink, backup) ==
    Bind(expandPath(target, homeDir), LAMBDA targetPath :
        reconcileLink(debug([w0 EXCEPT !.outcome = "none", !.backedUp = FALSE],
                            "Processing link", targetPath),
                      targetPath, Abs(expandSourcePath(source, homeDir, execDir)),
                      force, relink, backup))

(***************************************************************************)
(* Configuration. A section as the YAML file declares it: the defaults     *)
(* block (present or not; each key "unset", "true" or "false"), the        *)
(* profile, and the lists in declared order. yaml decodes link and git     *)
(* into Go maps, the other lists into slices.                              *)
(***************************************************************************)
NoDefaults == [present |-> FALSE, force |-> "unset", relink |-> "unset", backup |-> "unset"]
Defaults(f, r, b) == [present |-> TRUE, force |-> f, relink |-> r, backup |-> b]

Decl(t, s) == [target |-> t, source |-> s]

Section(d, links) ==
    [defaults |-> d, profile |-> "", link |-> links, create |-> << >>, git |-> << >>,
     shell |-> << >>, pre_link |-> << >>, post_link |-> << >>, pre_shell |-> << >>,
     post_shell |-> << >>]

\* a bool field of the Config struct after yaml.Unmarshal: an unset key is false
YamlBool(v) == v = "true"

\* App.getDefaultOptions: <<force, relink, backup>>
getDefaultOptions(config) ==
    IF ~config.defaults.present THEN <<FALSE, FALSE, TRUE>>
    ELSE <<YamlBool(config.defaults.force), YamlBool(config.defaults.relink),
           YamlBool(config.defaults.backup)>>

\* App.validateConfig looking at the links alone
validateLinks(cfg) ==
    \E i \in 1..Len(cfg.link) : cfg.link[i].target = << >> \/ cfg.link[i].source = << >>

\* App.validateConfig: TRUE when the section is rejected
validateConfig(cfg) ==
    \/ \E i \in 1..Len(cfg.link) : cfg.link[i].target = << >> \/ cfg.link[i].source = << >>
    \/ \E i \in 1..Len(cfg.git) : cfg.git[i].path = << >> \/ cfg.git[i].url = ""
    \/ \E i \in 1..Len(cfg.shell) : cfg.shell[i].command = ""

\* App.LoadConfigs keeping every section
LoadEverything(configs, profile) ==
    [err |-> \E i \in 1..Len(configs) : validateConfig(configs[i]), configs |-> configs]

\* App.LoadConfigs: the sections kept, or an error
LoadConfigs(configs, profile) ==
    [err |-> \E i \in 1..Len(configs) : validateConfig(configs[i]),
     configs |-> SelectSeq(configs,
                    LAMBDA cfg : ~(profile # "" /\ cfg.profile # "" /\ cfg.profile # profile))]

(***************************************************************************)
(* State of one machine: the filesystem, the configuration file, and the   *)
(* hidedot process being run (its flags, its logger, its position).        *)
(* History variables record what the claims speak about.                   *)
(***************************************************************************)
VARIABLES
    fs,         \* the filesystem
    conf,       \* the sections of the configuration file, in declared order
    flags,      \* dryRun, noBackup, profile, quiet, verbose of the invocations
    cmd,        \* the command being run: name and --restore
    configs,    \* what LoadConfigs returned to the command
    logger,     \* the Logger of the running process: counters and narration
    pc,         \* position of the running command
    runs,       \* number of commands started so far
    failing,    \* the external commands (hooks, shell, git clone) that exit non-zero
    ran,        \* external commands executed, in order
    fs0,        \* history: the filesystem when the command started
    calls,      \* history: the createLink calls of this command, in order
    lastOp,     \* history: the operation the last step performed
    summaries,  \* history: number of summaries this command printed
    prev,       \* history: the previous command (cmd, calls)
    report      \* what the last status command printed: its links, in printed order

vars == <<fs, conf, flags, cmd, configs, logger, pc, runs, failing, ran, fs0, calls, lastOp,
          summaries, prev, report>>

\* a world from the filesystem and the Logger, and back
World(f, l) == [fs |-> f, dryRun |-> l.dryRun, successCount |-> l.successCount,
                warnCount |-> l.warnCount, errorCount |-> l.errorCount,
                narr |-> l.narr, outcome |-> l.outcome, backedUp |-> l.backedUp,
                failures |-> l.failures,
                quiet |-> l.quiet, verbose |-> l.verbose, useColors |-> l.useColors,
                out |-> l.out]

\* App.RunLink handling the links of a section before its directories
PhaseNamesLinkFirst ==
    <<"pre_link", "link", "create", "post_link", "git", "pre_shell", "shell", "post_shell">>

PhaseNames ==
    <<"pre_link", "create", "link", "post_link", "git", "pre_shell", "shell", "post_shell">>

Items(cfg, j) == cfg[PhaseNames[j]]

Pos(at, i, j) == [at |-> at, sec |-> i, ph |-> j, seen |-> {}]

\* App.RunLink: the next phase that has something to do, from phase j of section i
RECURSIVE Seek(_, _, _)
Seek(cfgs, i, j) ==
    IF i > Len(cfgs) THEN Pos("summary", i, 1)
    ELSE IF j > Len(PhaseNames) THEN Seek(cfgs, i + 1, 1)
    ELSE IF Len(Items(cfgs[i], j)) > 0 THEN Pos("link", i, j)
    ELSE Seek(cfgs, i, j + 1)

\* App.RunLink: "Settings: ..." at the head of every section from i to j
RECURSIVE EnterSections(_, _, _, _)
EnterSections(w, cfgs, i, j) ==
    IF i > j \/ i > Len(cfgs) THEN w
    ELSE EnterSections(IF cfgs[i].defaults.present THEN info(w, "Settings", << >>) ELSE w,
                       cfgs, i + 1, j)

\* App.RunUnlink, App.RunBackup: the next section that declares links, from section i
RECURSIVE SeekLinks(_, _, _)
SeekLinks(cfgs, i, at) ==
    IF i > Len(cfgs) THEN Pos("summary", i, 1)
    ELSE IF Len(cfgs[i].link) > 0 THEN Pos(at, i, 3)
    ELSE SeekLinks(cfgs, i + 1, at)

\* App.RunLink returning after the first section
LeaveEarly(p) ==
    IF p.at = "link" /\ Seek(configs, p.sec, p.ph + 1).sec = p.sec
    THEN Seek(configs, p.sec, p.ph + 1)
    ELSE Pos("summary", Len(configs) + 1, 1)

\* the position after the last item of the current phase
Leave(p) ==
    IF p.at = "link" THEN Seek(configs, p.sec, p.ph + 1)
    ELSE SeekLinks(configs, p.sec + 1, p.at)

\* the position after item idx of the current phase
After(p, idx) ==
    IF Cardinality(p.seen \cup {idx}) = Len(Items(configs[p.sec], p.ph))
    THEN Leave(p)
    ELSE [p EXCEPT !.seen = p.seen \cup {idx}]

Arrive(w, p, q) == EnterSections(w, configs, p.sec + 1, q.sec)

\* the Logger of a world
LoggerOf(w) == [dryRun |-> w.dryRun, successCount |-> w.successCount,
                warnCount |-> w.warnCount, errorCount |-> w.errorCount,
                narr |-> w.narr, outcome |-> w.outcome, backedUp |-> w.backedUp,
                failures |-> w.failures,
                quiet |-> w.quiet, verbose |-> w.verbose, useColors |-> w.useColors,
                out |-> w.out]

Commit(w, q, op) ==
    /\ fs' = w.fs
    /\ logger' = LoggerOf(w)
    /\ pc' = q
    /\ lastOp' = op

\* App.createDirectory
createDirectory(w, dir) ==
    Bind(expandPath(dir, homeDir), LAMBDA dirPath :
    Bind(checkPathExists(w.fs, dirPath), LAMBDA st :
        IF st.err THEN error(w, "Error checking directory", dirPath)
        ELSE IF st.exists
        THEN IF st.isDir THEN info(w, "Directory already exists", dirPath)
             ELSE warn(w, "Path exists but is not a directory", dirPath)
        ELSE Bind(info(w, "Creating directory", dirPath), LAMBDA w1 :
             Bind(execute(w1, MkdirAll(w1.fs, dirPath)), LAMBDA r :
                 IF r.err THEN error(With(w1, r), "Error creating directory", dirPath)
                 ELSE IF ~w.dryRun THEN success(With(w1, r), "Created directory", dirPath)
                 ELSE With(w1, r)))))

\* git clone: a successful clone leaves the repository directory
gitClone(f, repoPath, ok) ==
    Bind(MkdirAll(f, repoPath), LAMBDA cl : IF ok /\ ~cl.err THEN cl ELSE Res(f, TRUE))

\* App.cloneRepo; ok tells whether git clone succeeds
cloneRepo(w, path, ok) ==
    Bind(expandPath(path, homeDir), LAMBDA repoPath :
    Bind(checkPathExists(w.fs, repoPath), LAMBDA st :
        IF st.err THEN error(w, "Error checking repository path", repoPath)
        ELSE IF st.exists
        THEN IF ~st.isDir THEN warn(w, "Path exists but is not a directory", repoPath)
             ELSE info(w, "Repository already exists", repoPath)
        ELSE Bind(info(w, "Cloning", repoPath), LAMBDA w1 :
             Bind(execute(w1, gitClone(w1.fs, repoPath, ok)), LAMBDA r :
                 IF r.err THEN error(With(w1, r), "Error cloning repository", repoPath)
                 ELSE IF ~w.dryRun THEN success(With(w1, r), "Cloned", repoPath)
                 ELSE With(w1, r)))))

\* App.runShellCommand; ok tells whether the command exits with status 0
runShellCommand(w, c, ok) ==
    Bind(debug(info(w, "Running", << >>), "Command", << >>), LAMBDA w1 :
        IF execute(w1, Res(w1.fs, ~ok)).err THEN error(w1, "Command failed", << >>)
        ELSE IF ~w.dryRun
        THEN success(IF w.verbose THEN debug(w1, "Output", << >>) ELSE w1, "Executed", << >>)
        ELSE w1)

\* App.runHooks: stops at the first hook that fails (bad: the hooks that exit
\* non-zero). Returns the world, the hooks executed and whether an error came back.
RECURSIVE runHooks(_, _, _, _)
runHooks(w, hooks, bad, done) ==
    IF hooks = << >> THEN [w |-> w, ran |-> done, err |-> FALSE]
    ELSE IF w.dryRun
    THEN runHooks(debug(w, "Running hook", << >>), Tail(hooks), bad, done)
    ELSE IF Head(hooks) \in bad
    THEN [w |-> debug(w, "Running hook", << >>), ran |-> Append(done, Head(hooks)),
          err |-> TRUE]
    ELSE runHooks(debug(w, "Running hook", << >>), Tail(hooks), bad,
                  Append(done, Head(hooks)))

\* the external commands a step executed
Externals(kind, names) == [i \in 1..Len(names) |-> <<kind, names[i]>>]

(***************************************************************************)
(* Commands. Initialize and LoadConfigs start a process; a command whose   *)
(* configuration is rejected exits before doing anything.                  *)
(***************************************************************************)
Idle == pc.at \in {"idle", "done", "exit"}

\* the shell runs the next command when the last one has ended
Ready == Idle /\ runs < MaxRuns

\* a command starts: Initialize, LoadConfigs, and what the command does before
\* its first declaration (prologue); an error of either ends the process
Begin(name, restore, first(_), prologue(_)) ==
    LET ld == LoadConfigs(conf, flags.profile)
        w0 == Initialize(fs, flags)
        q == first(ld.configs)
        pro == prologue(fs)
    IN  /\ runs' = runs + 1
        /\ cmd' = [name |-> name, restore |-> restore]
        /\ prev' = [cmd |-> cmd, calls |-> calls, fs0 |-> fs0]
        /\ fs0' = fs
        /\ calls' = << >>
        /\ summaries' = 0
        /\ lastOp' = "start"
        /\ IF ld.err
           THEN /\ configs' = << >>
                /\ fs' = fs
                /\ pc' = Pos("exit", 0, 1)
                /\ logger' = LoggerOf(w0)
           ELSE /\ configs' = ld.configs
                /\ fs' = pro.fs
                /\ pc' = IF pro.err THEN Pos("exit", 0, 1) ELSE q
                /\ logger' = LoggerOf(IF name = "link"
                                      THEN EnterSections(w0, ld.configs, 1, q.sec)
                                      ELSE w0)
        /\ UNCHANGED <<conf, flags, failing, ran>>

NoPrologue(f) == Res(f, FALSE)

FirstLink(cfgs) == Seek(cfgs, 1, 1)

\* linkCmd.RunE up to the first step of App.RunLink
StartLink == Ready /\ Begin("link", FALSE, FirstLink, NoPrologue) /\ UNCHANGED report

InPhase(names) == pc.at = "link" /\ PhaseNames[pc.ph] \in names

HookPhases == {"pre_link", "post_link", "pre_shell", "post_shell"}

\* one step of the command: the world it leaves and the position it moves to
Step(w, q, op) == Commit(Arrive(w, pc, q), q, op)

\* App.RunLink: what is logged when a list of hooks returns an error
HookFailed ==
    [pre_link |-> "Pre-link hook failed", post_link |-> "Post-link hook failed",
     pre_shell |-> "Pre-shell hook failed", post_shell |-> "Post-shell hook failed"]

\* App.RunLink: one list of hooks
RunHooks ==
    /\ InPhase(HookPhases)
    /\ Bind(runHooks(World(fs, logger), Items(configs[pc.sec], pc.ph), failing, << >>),
            LAMBDA r :
                /\ ran' = ran \o Externals("hook", r.ran)
                /\ Step(IF r.err THEN error(r.w, HookFailed[PhaseNames[pc.ph]], << >>)
                        ELSE r.w,
                        Leave(pc), "runHooks"))
    /\ UNCHANGED <<conf, flags, cmd, configs, runs, failing, fs0, calls, summaries, prev, report>>

\* App.RunLink: the next directory of create
CreateDirectory ==
    /\ InPhase({"create"})
    /\ Step(createDirectory(World(fs, logger),
                            Items(configs[pc.sec], pc.ph)[Cardinality(pc.seen) + 1]),
            After(pc, Cardinality(pc.seen) + 1), "createDirectory")
    /\ UNCHANGED <<conf, flags, cmd, configs, runs, failing, ran, fs0, calls, summaries, prev, report>>

\* the record of one createLink call: its arguments, and the filesystem and the
\* Logger before and after it
Call(idx, d, force, relink, backup, w) ==
    [sec |-> pc.sec, idx |-> idx, target |-> d.target, source |-> d.source,
     force |-> force, relink |-> relink, backup |-> backup,
     pre |-> fs, post |-> w.fs, before |-> logger, after |-> LoggerOf(w)]

\* the record of one pass of the loop of RunUnlink or RunBackup over a declaration
Visit(idx, d, w) == Call(idx, d, FALSE, FALSE, FALSE, w)

\* App.RunLink: app.createLink(target, source, force, relink, backup && !app.noBackup)
LinkCall(idx, d, force, relink, backup) ==
    Bind(createLink(World(fs, logger), d.target, d.source, force, relink, backup),
         LAMBDA w :
             /\ calls' = Append(calls, Call(idx, d, force, relink, backup, w))
             /\ Step(w, After(pc, idx), "createLink"))

\* App.RunLink handing the section's backup to createLink whatever --no-backup is
backupAnyway(backup, noBackup) == backup

\* App.RunLink: backup && !app.noBackup
effectiveBackup(backup, noBackup) == backup /\ ~noBackup

\* App.RunLink: one declaration of link; range over a Go map visits the keys in
\* an order the language leaves open
CreateLink ==
    /\ InPhase({"link"})
    /\ \E idx \in (1..Len(configs[pc.sec].link)) \ pc.seen :
         Bind(getDefaultOptions(configs[pc.sec]), LAMBDA opt :
             LinkCall(idx, configs[pc.sec].link[idx], opt[1], opt[2],
                      effectiveBackup(opt[3], flags.noBackup)))
    /\ UNCHANGED <<conf, flags, cmd, configs, runs, failing, ran, fs0, summaries, prev, report>>

\* whether cloneRepo gets as far as running git clone
Clones(f, path) ==
    Bind(checkPathExists(f, expandPath(path, homeDir)), LAMBDA st :
        ~flags.dryRun /\ ~st.exists /\ ~st.err)

\* App.RunLink: one repository of git (a Go map as well)
CloneRepo ==
    /\ InPhase({"git"})
    /\ \E idx \in (1..Len(configs[pc.sec].git)) \ pc.seen :
         Bind(configs[pc.sec].git[idx], LAMBDA g :
             /\ ran' = IF Clones(fs, g.path) THEN Append(ran, <<"git", g.url>>) ELSE ran
             /\ Step(cloneRepo(World(fs, logger), g.path, g.url \notin failing),
                     After(pc, idx), "cloneRepo"))
    /\ UNCHANGED <<conf, flags, cmd, configs, runs, failing, fs0, calls, summaries, prev, report>>

\* App.RunLink: the next command of shell
RunShellCommand ==
    /\ InPhase({"shell"})
    /\ Bind(Items(configs[pc.sec], pc.ph)[Cardinality(pc.seen) + 1], LAMBDA c :
           /\ ran' = IF flags.dryRun THEN ran ELSE Append(ran, <<"shell", c.command>>)
           /\ Step(runShellCommand(World(fs, logger), c, c.command \notin failing),
                   After(pc, Cardinality(pc.seen) + 1), "runShellCommand"))
    /\ UNCHANGED <<conf, flags, cmd, configs, runs, failing, fs0, calls, summaries, prev, report>>

\* App.restoreBackup moving the backup to the target
restoreAndDiscard(w, targetPath) ==
    Bind(checkPathExists(w.fs, getBackupPath(targetPath)), LAMBDA bk :
        IF ~bk.exists THEN debug(w, "No backup found for", targetPath)
        ELSE Bind(info(w, "Restoring backup", targetPath), LAMBDA w1 :
             Bind(execute(w1, IF bk.isDir
                              THEN copyDir(w1.fs, getBackupPath(targetPath), targetPath)
                              ELSE copyFile(w1.fs, getBackupPath(targetPath), targetPath)),
                  LAMBDA r :
                 IF r.err THEN error(With(w1, r), "Error restoring backup", targetPath)
                 ELSE success(Run(With(w1, r), RemoveAll(r.fs, getBackupPath(targetPath))),
                              "Restored", targetPath))))

\* App.restoreBackup
restoreBackup(w, targetPath) ==
    Bind(checkPathExists(w.fs, getBackupPath(targetPath)), LAMBDA bk :
        IF ~bk.exists THEN debug(w, "No backup found for", targetPath)
        ELSE Bind(info(w, "Restoring backup", targetPath), LAMBDA w1 :
             Bind(execute(w1, IF bk.isDir
                              THEN copyDir(w1.fs, getBackupPath(targetPath), targetPath)
                              ELSE copyFile(w1.fs, getBackupPath(targetPath), targetPath)),
                  LAMBDA r :
                 IF r.err THEN error(With(w1, r), "Error restoring backup", targetPath)
                 ELSE success(With(w1, r), "Restored", targetPath))))

\* App.RunUnlink: the body of the loop over config.Link, from os.Remove on
removeSymlink(w, targetPath, restore) ==
    Bind(info(w, "Removing symlink", targetPath), LAMBDA w1 :
    Bind(execute(w1, Remove(w1.fs, targetPath)), LAMBDA r :
        IF r.err THEN error(With(w1, r), "Error removing symlink", targetPath)
        ELSE IF restore
        THEN restoreBackup(success(With(w1, r), "Removed", targetPath), targetPath)
        ELSE success(With(w1, r), "Removed", targetPath)))

\* App.RunUnlink removing whatever it finds at the target
unlinkAnything(w, targetPath, restore) ==
    Bind(Lstat(w.fs, targetPath), LAMBDA st :
        IF st.err # "ok"
        THEN IF IsNotExist(st.err) THEN info(w, "Symlink does not exist", targetPath)
             ELSE error(w, "Error checking", targetPath)
        ELSE Bind(info(w, "Removing symlink", targetPath), LAMBDA w1 :
                 success(Run(w1, RemoveAll(w1.fs, targetPath)), "Removed", targetPath)))

\* App.RunUnlink: the body of the loop over config.Link
unlinkTarget(w, targetPath, restore) ==
    Bind(Lstat(w.fs, targetPath), LAMBDA st :
        IF st.err # "ok"
        THEN IF IsNotExist(st.err) THEN info(w, "Symlink does not exist", targetPath)
             ELSE error(w, "Error checking", targetPath)
        ELSE IF st.node.t # "link" THEN warn(w, "Not a symlink, skipping", targetPath)
        ELSE removeSymlink(w, targetPath, restore))

\* App.RunBackup: the body of the loop over config.Link
backupTarget(w, targetPath) ==
    Bind(checkPathExists(w.fs, targetPath), LAMBDA tgt :
    Bind(Lstat(w.fs, targetPath), LAMBDA st :
        IF ~tgt.exists \/ st.err # "ok" THEN w
        ELSE IF st.node.t = "link" THEN debug(w, "Skipping symlink", targetPath)
        ELSE Bind(info(w, "Backing up", targetPath), LAMBDA w1 :
             Bind(execute(w1, IF tgt.isDir
                              THEN copyDir(w1.fs, targetPath, getBackupPath(targetPath))
                              ELSE copyFile(w1.fs, targetPath, getBackupPath(targetPath))),
                  LAMBDA r :
                 IF r.err THEN error(With(w1, r), "Error creating backup", targetPath)
                 ELSE success(With(w1, r), "Backed up", targetPath)))))

FirstUnlink(cfgs) == SeekLinks(cfgs, 1, "unlink")

\* unlinkCmd.RunE up to the first step of App.RunUnlink
StartUnlink ==
    /\ Ready
    /\ \E restore \in BOOLEAN : Begin("unlink", restore, FirstUnlink, NoPrologue)
    /\ UNCHANGED report

FirstBackup(cfgs) == SeekLinks(cfgs, 1, "backup")

\* App.RunBackup: os.MkdirAll(app.backupDir, 0755), outside logger.execute
BackupPrologue(f) == MkdirAll(f, backupDir)

\* backupCreateCmd.RunE up to the first step of App.RunBackup
StartBackup == Ready /\ Begin("backup", FALSE, FirstBackup, BackupPrologue) /\ UNCHANGED report

\* App.RunUnlink: one declaration of link (a Go map)
UnlinkTarget ==
    /\ pc.at = "unlink"
    /\ \E idx \in (1..Len(configs[pc.sec].link)) \ pc.seen :
         Bind(unlinkTarget(World(fs, logger),
                           expandPath(configs[pc.sec].link[idx].target, homeDir),
                           cmd.restore),
              LAMBDA w :
                  /\ calls' = Append(calls, Visit(idx, configs[pc.sec].link[idx], w))
                  /\ Commit(w, After(pc, idx), "unlink"))
    /\ UNCHANGED <<conf, flags, cmd, configs, runs, failing, ran, fs0, summaries, prev, report>>

\* App.RunBackup: one declaration of link (a Go map)
BackupTarget ==
    /\ pc.at = "backup"
    /\ \E idx \in (1..Len(configs[pc.sec].link)) \ pc.seen :
         Bind(backupTarget(World(fs, logger),
                           expandPath(configs[pc.sec].link[idx].target, homeDir)),
              LAMBDA w :
                  /\ calls' = Append(calls, Visit(idx, configs[pc.sec].link[idx], w))
                  /\ Commit(w, After(pc, idx), "backup"))
    /\ UNCHANGED <<conf, flags, cmd, configs, runs, failing, ran, fs0, summaries, prev, report>>

\* LinkStatus
StatusOK == 0
StatusMissing == 1
StatusBroken == 2
StatusMismatch == 3
StatusNotSymlink == 4

\* LinkInfo
LinkInfo(targetPath, sourcePath, status, dest) ==
    [Target |-> targetPath, Source |-> sourcePath, Status |-> status, CurrentDest |-> dest]

\* App.checkLinkStatus reporting a link by its destination alone
checkLinkStatusByDest(f, target, source) ==
    Bind(expandPath(target, homeDir), LAMBDA targetPath :
    Bind(Abs(expandSourcePath(source, homeDir, execDir)), LAMBDA sourcePath :
    Bind(Lstat(f, targetPath), LAMBDA st :
        IF st.err # "ok"
        THEN LinkInfo(targetPath, sourcePath,
                      IF IsNotExist(st.err) THEN StatusMissing ELSE StatusBroken, << >>)
        ELSE IF st.node.t # "link"
        THEN LinkInfo(targetPath, sourcePath, StatusNotSymlink, << >>)
        ELSE Bind(AbsDest(Dir(targetPath), st.node.d), LAMBDA dest :
                 IF dest # sourcePath
                 THEN LinkInfo(targetPath, sourcePath, StatusMismatch, dest)
                 ELSE LinkInfo(targetPath, sourcePath, StatusOK, dest)))))

\* App.checkLinkStatus
checkLinkStatus(f, target, source) ==
    Bind(expandPath(target, homeDir), LAMBDA targetPath :
    Bind(Abs(expandSourcePath(source, homeDir, execDir)), LAMBDA sourcePath :
    Bind(Lstat(f, targetPath), LAMBDA st :
        IF st.err # "ok"
        THEN LinkInfo(targetPath, sourcePath,
                      IF IsNotExist(st.err) THEN StatusMissing ELSE StatusBroken, << >>)
        ELSE IF st.node.t # "link"
        THEN LinkInfo(targetPath, sourcePath, StatusNotSymlink, << >>)
        ELSE Bind(AbsDest(Dir(targetPath), st.node.d), LAMBDA dest :
                 IF Stat(f, targetPath).err # "ok"
                 THEN LinkInfo(targetPath, sourcePath, StatusBroken, dest)
                 ELSE IF dest # sourcePath
                 THEN LinkInfo(targetPath, sourcePath, StatusMismatch, dest)
                 ELSE LinkInfo(targetPath, sourcePath, StatusOK, dest)))))

\* the tokens of the model's paths in byte order (a name is followed by a
\* separator or ends the string)
TokenOrder ==
    <<"..", ".", ".hidedot-backups", Sep>> \o Tail(NameOrder) \o <<"~", "~user">>

TokenRank(t) == CHOOSE i \in 1..Len(TokenOrder) : TokenOrder[i] = t

\* Go's < on two path strings
RECURSIVE PathLess(_, _)
PathLess(p, q) ==
    IF q = << >> THEN FALSE
    ELSE IF p = << >> THEN TRUE
    ELSE IF Head(p) = Head(q) THEN PathLess(Tail(p), Tail(q))
    ELSE TokenRank(Head(p)) < TokenRank(Head(q))

\* App.RunStatus: the less function handed to sort.Slice
StatusLess(a, b) ==
    IF a.Status # b.Status THEN a.Status > b.Status ELSE PathLess(a.Target, b.Target)

\* the declarations of the sections, as <<section, index>>
Declared(cfgs) ==
    UNION {{<<i, j>> : j \in 1..Len(cfgs[i].link)} : i \in 1..Len(cfgs)}

\* App.RunStatus: the lists sort.Slice may leave, from the declarations visited
\* in any order (sort.Slice is not stable)
StatusLists(f, cfgs) ==
    {[k \in 1..Cardinality(Declared(cfgs)) |->
         checkLinkStatus(f, cfgs[o[k][1]].link[o[k][2]].target,
                         cfgs[o[k][1]].link[o[k][2]].source)] :
       o \in {x \in [1..Cardinality(Declared(cfgs)) -> Declared(cfgs)] :
                 \A a, b \in DOMAIN x : a # b => x[a] # x[b]}}

Sorted(l) == \A i, j \in DOMAIN l : i < j => ~StatusLess(l[j], l[i])

\* App.RunStatus
RunStatus(f, cfgs) == {l \in StatusLists(f, cfgs) : Sorted(l)}

FirstStatus(cfgs) == Pos("done", 0, 1)

\* statusCmd.RunE
StartStatus ==
    /\ Ready
    /\ Begin("status", FALSE, FirstStatus, NoPrologue)
    /\ report' \in IF LoadConfigs(conf, flags.profile).err THEN {<< >>}
                   ELSE RunStatus(fs, LoadConfigs(conf, flags.profile).configs)

\* Logger.summary, and the command returns nil
Summary ==
    /\ pc.at = "summary"
    /\ summaries' = summaries + 1
    /\ pc' = Pos("done", 0, 1)
    /\ lastOp' = "summary"
    /\ UNCHANGED <<fs, conf, flags, cmd, configs, logger, runs, failing, ran, fs0, calls, prev, report>>

(***************************************************************************)
(* The flag-based program of src/unnamed/part_000: one main that links,    *)
(* creates directories, clones and runs shell commands, section by         *)
(* section. Its Logger has no warning counter, and its execute counts an   *)
(* error for every action that fails.                                      *)
(***************************************************************************)
\* Logger.warn of part_000
warn0(w, msg, p) == Say(w, "warn", msg, p)

\* Logger.execute of part_000: the world after the action, and its error
execute0(w, r) ==
    IF w.dryRun THEN [w |-> w, err |-> FALSE]
    ELSE [w |-> [With(w, r) EXCEPT !.errorCount = @ + (IF r.err THEN 1 ELSE 0)],
          err |-> r.err]

\* getDefaultOptions of part_000: <<force, relink>>
getDefaultOptions0(config) ==
    IF ~config.defaults.present THEN <<FALSE, FALSE>>
    ELSE <<YamlBool(config.defaults.force), YamlBool(config.defaults.relink)>>

\* checkForDuplicates of part_000: the entries marked for removal
duplicates0(f, targetDir, names, targetPath, sourcePath) ==
    SelectSeq([k \in DOMAIN names |-> Join(targetDir, <<names[k]>>)],
              LAMBDA entryPath :
                  /\ entryPath # targetPath
                  /\ Lstat(f, entryPath).err = "ok"
                  /\ Lstat(f, entryPath).node.t = "link"
                  /\ AbsDest(targetDir, Lstat(f, entryPath).node.d) = sourcePath)

\* checkForDuplicates of part_000: the loop that removes them
RECURSIVE removeDuplicates0(_, _)
removeDuplicates0(w, dups) ==
    IF dups = << >> THEN w
    ELSE Bind(warn0(w, "Found duplicate symlink", Head(dups)), LAMBDA w1 :
             removeDuplicates0(execute0(w1, Remove(w1.fs, Head(dups))).w, Tail(dups)))

\* checkForDuplicates of part_000
checkForDuplicates0(w, targetPath, sourcePath) ==
    Bind(ReadDir(w.fs, Dir(targetPath)), LAMBDA rd :
        IF rd.err THEN w
        ELSE removeDuplicates0(w, duplicates0(w.fs, Dir(targetPath), SortNames(rd.names),
                                              targetPath, sourcePath)))

\* main of part_000: os.Symlink and what is logged after it
createSymlink0(w, targetPath, sourcePath) ==
    Bind(info(w, "Creating symlink", targetPath), LAMBDA w1 :
    Bind(execute0(w1, Symlink(w1.fs, sourcePath, targetPath)), LAMBDA x :
        IF x.err THEN error(x.w, "Error creating symlink", targetPath)
        ELSE IF ~w.dryRun THEN success(x.w, "Successfully created symlink", targetPath)
        ELSE x.w))

\* main of part_000: the body of the loop over config.Link, from the probe of
\* the target on; the destination of a link is compared as os.Readlink returns it
reconcileTarget0(w, targetPath, sourcePath, force, relink) ==
    Bind(checkPathExists(w.fs, targetPath), LAMBDA tgt :
    Bind(Lstat(w.fs, targetPath), LAMBDA st :
        IF ~tgt.exists THEN createSymlink0(w, targetPath, sourcePath)
        ELSE Bind(IF tgt.isDir THEN warn0(w, "Target exists and is a directory", targetPath)
                  ELSE w, LAMBDA w1 :
            IF st.err = "ok" /\ st.node.t = "link"
            THEN IF relink /\ st.node.d # sourcePath
                 THEN Bind(warn0(w1, "Relinking incorrect symlink", targetPath), LAMBDA w2 :
                          createSymlink0(execute0(w2, Remove(w2.fs, targetPath)).w,
                                         targetPath, sourcePath))
                 ELSE IF ~relink
                 THEN info(w1, "Existing symlink left unchanged", targetPath)
                 ELSE createSymlink0(w1, targetPath, sourcePath)
            ELSE IF force
            THEN Bind(warn0(w1, "Removing existing path (force=true)", targetPath), LAMBDA w2 :
                     createSymlink0(execute0(w2, RemoveAll(w2.fs, targetPath)).w,
                                    targetPath, sourcePath))
            ELSE warn0(w1, "Path exists and is not a symlink (force=false)", targetPath))))

\* main of part_000: the body of the loop over config.Link
link0(w, target, source, force, relink) ==
    Bind(expandPath(target, homeDir), LAMBDA targetPath :
    Bind(Abs(expandSourcePath(source, homeDir, execDir)), LAMBDA sourcePath :
    Bind(checkPathExists(w.fs, sourcePath), LAMBDA src :
    Bind(checkPathExists(w.fs, Dir(targetPath)), LAMBDA par :
        IF src.err THEN error(w, "Error checking source path", sourcePath)
        ELSE IF ~src.exists THEN error(w, "Source path does not exist", sourcePath)
        ELSE IF par.exists /\ ~par.isDir
        THEN error(w, "Error: Parent path exists but is not a directory", Dir(targetPath))
        ELSE Bind(IF ~par.exists
                  THEN Bind(info(w, "Creating parent directory", Dir(targetPath)),
                            LAMBDA i : execute0(i, MkdirAll(i.fs, Dir(targetPath))).w)
                  ELSE w, LAMBDA w1 :
                 reconcileTarget0(checkForDuplicates0(w1, targetPath, sourcePath),
                                  targetPath, sourcePath, force, relink))))))

\* main of part_000: the body of the loop over config.Create
create0(w, dir) ==
    Bind(expandPath(dir, homeDir), LAMBDA dirPath :
    Bind(checkPathExists(w.fs, dirPath), LAMBDA st :
        IF st.err THEN error(w, "Error checking directory", dirPath)
        ELSE IF st.exists
        THEN IF st.isDir THEN info(w, "Directory already exists", dirPath)
             ELSE warn0(w, "Path exists but is not a directory", dirPath)
        ELSE Bind(info(w, "Creating directory", dirPath), LAMBDA w1 :
             Bind(execute0(w1, MkdirAll(w1.fs, dirPath)), LAMBDA x :
                 IF x.err THEN error(x.w, "Error creating directory", dirPath)
                 ELSE IF ~w.dryRun THEN success(x.w, "Successfully created directory", dirPath)
                 ELSE x.w))))

\* main of part_000: the body of the loop over config.Git
git0(w, path, ok) ==
    Bind(expandPath(path, homeDir), LAMBDA repoPath :
    Bind(checkPathExists(w.fs, repoPath), LAMBDA st :
        IF st.err THEN error(w, "Error checking repository path", repoPath)
        ELSE IF st.exists
        THEN IF ~st.isDir THEN warn0(w, "Path exists but is not a directory", repoPath)
             ELSE info(w, "Repository already exists", repoPath)
        ELSE Bind(info(w, "Cloning", repoPath), LAMBDA w1 :
             Bind(execute0(w1, gitClone(w1.fs, repoPath, ok)), LAMBDA x :
                 IF x.err THEN error(x.w, "Error cloning repository", repoPath)
                 ELSE IF ~w.dryRun THEN success(x.w, "Successfully cloned repository", repoPath)
                 ELSE x.w))))

\* main of part_000: the body of the loop over config.Shell
shell0(w, c, ok) ==
    Bind(info(w, "Running", << >>), LAMBDA w1 :
    Bind(execute0(w1, Res(w1.fs, ~ok)), LAMBDA x :
        IF x.err THEN error(x.w, "Error running command", << >>)
        ELSE IF ~w.dryRun THEN success(x.w, "Successfully executed", << >>)
        ELSE x.w))

\* main of part_000: the order of the loops within a section
PhaseNames0 == <<"link", "create", "git", "shell">>

Items0(cfg, j) == cfg[PhaseNames0[j]]

\* main of part_000: the next loop that has something to do
RECURSIVE Seek0(_, _, _)
Seek0(cfgs, i, j) ==
    IF i > Len(cfgs) THEN Pos("summary", i, 1)
    ELSE IF j > Len(PhaseNames0) THEN Seek0(cfgs, i + 1, 1)
    ELSE IF Len(Items0(cfgs[i], j)) > 0 THEN Pos("main", i, j)
    ELSE Seek0(cfgs, i, j + 1)

\* main of part_000: "Setting defaults: ..." at the head of the sections i to j
RECURSIVE EnterSections0(_, _, _, _)
EnterSections0(w, cfgs, i, j) ==
    IF i > j \/ i > Len(cfgs) THEN w
    ELSE EnterSections0(IF cfgs[i].defaults.present THEN info(w, "Setting defaults", << >>)
                        ELSE w, cfgs, i + 1, j)

After0(p, idx) ==
    IF Cardinality(p.seen \cup {idx}) = Len(Items0(configs[p.sec], p.ph))
    THEN Seek0(configs, p.sec, p.ph + 1)
    ELSE [p EXCEPT !.seen = p.seen \cup {idx}]

Step0(w, q, op) == Commit(EnterSections0(w, configs, pc.sec + 1, q.sec), q, op)

InPhase0(name) == pc.at = "main" /\ PhaseNames0[pc.ph] = name

\* main of part_000 up to the first pass of a loop: flags, Logger, configuration
StartMain ==
    /\ Ready
    /\ runs' = runs + 1
    /\ cmd' = [name |-> "main", restore |-> FALSE]
    /\ prev' = [cmd |-> cmd, calls |-> calls, fs0 |-> fs0]
    /\ fs0' = fs
    /\ calls' = << >>
    /\ summaries' = 0
    /\ configs' = conf
    /\ lastOp' = "start"
    /\ pc' = Seek0(conf, 1, 1)
    /\ logger' = LoggerOf(EnterSections0(NewLogger(fs, flags.dryRun), conf, 1,
                                         Seek0(conf, 1, 1).sec))
    /\ UNCHANGED <<fs, conf, flags, failing, ran, report>>

\* main of part_000: one declaration of link (a Go map)
Link0 ==
    /\ InPhase0("link")
    /\ \E idx \in (1..Len(configs[pc.sec].link)) \ pc.seen :
         Bind(getDefaultOptions0(configs[pc.sec]), LAMBDA opt :
         Bind(link0(World(fs, logger), configs[pc.sec].link[idx].target,
                    configs[pc.sec].link[idx].source, opt[1], opt[2]), LAMBDA w :
             /\ calls' = Append(calls, Call(idx, configs[pc.sec].link[idx],
                                            opt[1], opt[2], FALSE, w))
             /\ Step0(w, After0(pc, idx), "link0")))
    /\ UNCHANGED <<conf, flags, cmd, configs, runs, failing, ran, fs0, summaries, prev, report>>

\* main of part_000: the next directory of create
Create0 ==
    /\ InPhase0("create")
    /\ Step0(create0(World(fs, logger), Items0(configs[pc.sec], pc.ph)[Cardinality(pc.seen) + 1]),
             After0(pc, Cardinality(pc.seen) + 1), "create0")
    /\ UNCHANGED <<conf, flags, cmd, configs, runs, failing, ran, fs0, calls, summaries, prev, report>>

\* main of part_000: one repository of git (a Go map)
Git0 ==
    /\ InPhase0("git")
    /\ \E idx \in (1..Len(configs[pc.sec].git)) \ pc.seen :
         Bind(configs[pc.sec].git[idx], LAMBDA g :
             /\ ran' = IF Clones(fs, g.path) THEN Append(ran, <<"git", g.url>>) ELSE ran
             /\ Step0(git0(World(fs, logger), g.path, g.url \notin failing),
                      After0(pc, idx), "git0"))
    /\ UNCHANGED <<conf, flags, cmd, configs, runs, failing, fs0, calls, summaries, prev, report>>

\* main of part_000: the next command of shell
Shell0 ==
    /\ InPhase0("shell")
    /\ Bind(Items0(configs[pc.sec], pc.ph)[Cardinality(pc.seen) + 1], LAMBDA c :
           /\ ran' = IF flags.dryRun THEN ran ELSE Append(ran, <<"shell", c.command>>)
           /\ Step0(shell0(World(fs, logger), c, c.command \notin failing),
                    After0(pc, Cardinality(pc.seen) + 1), "shell0"))
    /\ UNCHANGED <<conf, flags, cmd, configs, runs, failing, fs0, calls, summaries, prev, report>>

\* main of part_000, run up to MaxRuns times
NextMain ==
    \/ StartMain
    \/ Link0
    \/ Create0
    \/ Git0
    \/ Shell0
    \/ Summary

(***************************************************************************)
(* Initial states: a configuration file and a filesystem it is applied to. *)
(***************************************************************************)
\* declared targets and sources
TA == <<"~", Sep, "a">>
TB == <<"~", Sep, "b">>
TDA == <<"~", Sep, "d", Sep, "a">>
TU == <<Sep, "h", Sep, ".", Sep, "a">>
SX == <<"x">>
SY == <<Sep, "s", Sep, "y">>
SZ == <<"z">>
TDX == <<"~", Sep, "d", Sep, "x">>
TDL == <<"~", Sep, "d", Sep, "l">>
TDEA == <<"~", Sep, "d", Sep, "e", Sep, "a">>
TDB == <<"~", Sep, "d", Sep, "b">>
TEA == <<"~", Sep, "e", Sep, "a">>

KeyA == <<"h", "a">>
KeyB == <<"h", "b">>
KeyD == <<"h", "d">>
KeyBk == Split(backupDir)
KeyBa == Split(getBackupPath(expandPath(TA, homeDir)))

RECURSIVE PutAll(_, _)
PutAll(f, kns) == IF kns = << >> THEN f ELSE PutAll(Put(f, Head(kns)[1], Head(kns)[2]), Tail(kns))

\* home, the dotfiles directory (the working directory) and two sources
BaseFs ==
    PutAll(<< >>, << <<(<<"h">>), DirN>>, <<(<<"s">>), DirN>>,
                     <<(<<"s", "x">>), File(1)>>, <<(<<"s", "y">>), File(2)>> >>)

\* what is at ~/a
AOpts ==
    { << >>,
      << <<KeyA, File(1)>> >>,
      << <<KeyA, DirN>> >>,
      << <<KeyA, DirN>>, <<Append(KeyA, "f"), File(2)>> >>,
      << <<KeyA, Link(<<Sep, "s", Sep, "x">>)>> >>,
      << <<KeyA, Link(<<Sep, "s", Sep, "y">>)>> >>,
      << <<KeyA, Link(<<"..", Sep, "s", Sep, "x">>)>> >> }

\* what is at ~/b
BOpts ==
    { << >>,
      << <<KeyB, Link(<<"..", Sep, "s", Sep, "x">>)>> >>,
      << <<KeyB, Link(<<Sep, "s", Sep, "y">>)>> >> }

\* what is at the backup directory and at the backup path of ~/a
KOpts ==
    { << >>,
      << <<KeyBk, File(1)>> >>,
      << <<KeyBk, DirN>> >>,
      << <<KeyBk, DirN>>, <<KeyBa, File(2)>> >>,
      << <<KeyBk, DirN>>, <<KeyBa, DirN>>, <<Append(KeyBa, "f"), File(1)>> >> }

\* what is at ~/d
DOpts ==
    { << >>,
      << <<KeyD, DirN>> >>,
      << <<KeyD, File(1)>> >>,
      << <<KeyD, Link(<<Sep, "s">>)>> >> }

YamlBools == {"true", "false"}

AllDefaults ==
    {NoDefaults} \cup {Defaults(f, r, b) : f \in YamlBools, r \in YamlBools,
                                          b \in YamlBools \cup {"unset"}}

SomeDefaults ==
    {NoDefaults, Defaults("true", "true", "true"), Defaults("true", "false", "unset")}

Scenario(c, f) == [conf |-> c, fs |-> f, failing |-> {}]

\* one section, one declaration, every policy
OneDecl ==
    {Scenario(<<Section(p, <<Decl(TA, SX)>>)>>, PutAll(BaseFs, a \o b \o k)) :
        p \in AllDefaults, a \in AOpts, b \in BOpts, k \in KOpts}

\* the source is missing, the target's parent is absent, a file or a link or
\* lies below a file, the target is not in clean form
OddDecl ==
    {Scenario(<<Section(p, <<Decl(TA, SZ)>>)>>, PutAll(BaseFs, a \o b)) :
        p \in SomeDefaults, a \in AOpts \cup {<< <<KeyA, Link(<<Sep, "s", Sep, "z">>)>> >>},
        b \in BOpts}
    \cup {Scenario(<<Section(p, <<Decl(t, SX)>>)>>, PutAll(BaseFs, d)) :
            p \in SomeDefaults, t \in {TDA, TDEA}, d \in DOpts}
    \cup {Scenario(<<Section(p, <<Decl(TU, SX)>>)>>, PutAll(BaseFs, a \o b)) :
            p \in SomeDefaults, a \in AOpts, b \in BOpts}
    \cup {Scenario(<<Section(p, <<Decl(TEA, SX), Decl(TDA, SX)>>)>>, PutAll(BaseFs, d)) :
            p \in SomeDefaults,
            d \in {<< <<KeyD, File(1)>> >>,
                   << <<KeyD, Link(<<Sep, "s">>)>>,
                      <<(<<"s", "b">>), Link(<<Sep, "s", Sep, "x">>)>> >>}}
    \cup {Scenario(<<Section(p, <<Decl(TA, SZ), Decl(TDA, SZ)>>)>>,
                   PutAll(BaseFs, << <<KeyA, File(1)>>,
                                     <<KeyB, Link(<<Sep, "s", Sep, "z">>)>> >>)) :
            p \in SomeDefaults}

\* the target's parent ~/d is a symbolic link to the directory /s, where l is a
\* symbolic link to y, and b is a second link to the declared source
ViaLink ==
    {Scenario(<<Section(p, <<d>>)>>,
              PutAll(BaseFs, << <<KeyD, Link(<<Sep, "s">>)>>,
                                <<(<<"s", "l">>), Link(<<Sep, "s", Sep, "y">>)>>,
                                <<(<<"s", "b">>), Link(<<"x">>)>> >>)) :
        p \in SomeDefaults, d \in {Decl(TDX, SY), Decl(TDL, SX), Decl(TDB, TDX)}}

\* one section, two declarations
TwoDecls ==
    {Scenario(<<Section(p, <<Decl(TA, SX), Decl(TB, s)>>)>>, PutAll(BaseFs, a \o b)) :
        p \in SomeDefaults, s \in {SX, SY}, a \in AOpts, b \in BOpts}

\* two sections with every phase, the second declaring ~/a again
FullConf(p1, p2) ==
    << [Section(p1, <<Decl(TA, SX)>>) EXCEPT
            !.create = << <<"~", Sep, "d">> >>,
            !.git = << [path |-> <<"~", Sep, "g">>, url |-> "u"] >>,
            !.shell = << [command |-> "c1", description |-> "", stdin |-> ""] >>,
            !.pre_link = <<"h1", "h2">>,
            !.post_link = <<"h3">>,
            !.pre_shell = <<"h4">>,
            !.post_shell = <<"h5">>],
       Section(p2, <<Decl(TA, SY), Decl(TDEA, SX)>>) >>

\* the external commands that fail
Failures == {{}, {"h2"}, {"h1", "c1"}, {"h3", "u", "h5"}, {"h4"}}

TwoSections ==
    {[Scenario(FullConf(p1, p2), PutAll(BaseFs, a \o d)) EXCEPT !.failing = bad] :
        p1 \in {NoDefaults, Defaults("true", "true", "true")},
        p2 \in {NoDefaults, Defaults("true", "true", "true")},
        a \in {<< >>, << <<KeyA, File(1)>> >>}, d \in {<< >>, << <<KeyD, File(1)>> >>},
        bad \in Failures}

Scenarios == OneDecl \cup OddDecl \cup ViaLink \cup TwoDecls \cup TwoSections

Flags(dry, nb) == [dryRun |-> dry, noBackup |-> nb, profile |-> "", quiet |-> FALSE,
                   verbose |-> FALSE, noColor |-> FALSE]

NoCmd == [name |-> "none", restore |-> FALSE]

InitOf(sc, fl) ==
        /\ fs = sc.fs
        /\ conf = sc.conf
        /\ flags = fl
        /\ cmd = NoCmd
        /\ configs = << >>
        /\ logger = LoggerOf(Initialize(sc.fs, fl))
        /\ pc = Pos("idle", 0, 1)
        /\ runs = 0
        /\ failing = sc.failing
        /\ ran = << >>
        /\ fs0 = sc.fs
        /\ calls = << >>
        /\ lastOp = "none"
        /\ summaries = 0
        /\ prev = [cmd |-> NoCmd, calls |-> << >>, fs0 |-> sc.fs]
        /\ report = << >>

InitWith(S) == \E sc \in S, dry \in BOOLEAN, nb \in BOOLEAN : InitOf(sc, Flags(dry, nb))

Init == InitWith(Scenarios)

\* the link command, run up to MaxRuns times
Next ==
    \/ StartLink
    \/ RunHooks
    \/ CreateDirectory
    \/ CreateLink
    \/ CloneRepo
    \/ RunShellCommand
    \/ Summary

Spec == Init /\ [][Next]_vars

\* links that lead nowhere, to themselves or to another link, and a file where
\* the target's parent is declared
BrokenOpts ==
    { << <<KeyA, Link(<<Sep, "s", Sep, "z">>)>> >>,
      << <<KeyA, Link(<<"a">>)>> >>,
      << <<KeyA, Link(<<Sep, "s", Sep, "l">>)>>,
         <<(<<"s", "l">>), Link(<<Sep, "s", Sep, "y">>)>> >>,
      << <<KeyD, File(1)>> >>,
      << <<KeyD, DirN>>, <<Append(KeyD, "a"), Link(<<"..", Sep, "..", Sep, "s", Sep, "x">>)>> >> }

\* the configurations the commands are mixed on
CmdScenarios ==
    {Scenario(<<Section(p, <<Decl(TA, SX)>>)>>, PutAll(BaseFs, a \o k)) :
        p \in SomeDefaults, a \in AOpts, k \in KOpts}
    \cup {Scenario(<<Section(NoDefaults, << >>),
                     Section(Defaults("true", "true", "true"), <<Decl(TA, SX), Decl(TB, SY)>>)>>,
                   PutAll(BaseFs, a \o b)) : a \in AOpts, b \in BOpts}
    \cup {[Scenario(FullConf(NoDefaults, NoDefaults), BaseFs) EXCEPT !.failing = {"h3"}]}
    \cup {Scenario(<<Section(p, <<d>>)>>, PutAll(BaseFs, o)) :
            p \in {NoDefaults, Defaults("true", "true", "true")},
            d \in {Decl(TA, SX), Decl(TA, SY), Decl(TA, SZ), Decl(TDA, SX)},
            o \in BrokenOpts}

InitCmds == InitWith(CmdScenarios)

\* link, unlink, unlink --restore and backup create, MaxRuns of them in any order
NextCmds ==
    \/ StartLink
    \/ StartUnlink
    \/ StartBackup
    \/ RunHooks
    \/ CreateDirectory
    \/ CreateLink
    \/ CloneRepo
    \/ RunShellCommand
    \/ StartStatus
    \/ UnlinkTarget
    \/ BackupTarget
    \/ Summary

SpecCmds == InitCmds /\ [][NextCmds]_vars

\* path strings a configuration may declare as a target or a directory
PathInputs ==
    { <<"~">>, <<"~", Sep>>, TA, <<"~", Sep, Sep, "a">>, <<"~", Sep, "..", Sep, "s", Sep, "b">>,
      <<"~user">>, <<"~user", Sep, "a">>, TU, <<Sep, "s", Sep, "b">>, <<"b">>,
      <<".", Sep, "~">>, <<"a", Sep, "~", Sep, "b">> }

PathScenarios ==
    {Scenario(<< [Section(NoDefaults, <<Decl(t, src)>>) EXCEPT
                     !.create = <<c>>,
                     !.git = << [path |-> <<"~", Sep, "g">>, url |-> "u"] >>,
                     !.shell = << [command |-> "c1", description |-> "", stdin |-> ""] >>,
                     !.pre_link = <<"h1">>] >>, BaseFs) :
        t \in PathInputs, c \in {<<"~", Sep, "d">>, <<"~user">>}, src \in {SX, <<"~", Sep, "x">>}}

InitPaths == \E sc \in PathScenarios, dry \in BOOLEAN : InitOf(sc, Flags(dry, FALSE))

\* the link command on targets written in every form
SpecPaths == InitPaths /\ [][Next]_vars

\* two sections with every phase, with nothing failing or a hook of each kind
\* and the clone failing
NarrationScenarios == {sc \in TwoSections : sc.failing \in {{}, {"h3", "u", "h5"}}}

InitNarration ==
    \E sc \in NarrationScenarios, dry \in BOOLEAN, q \in BOOLEAN, v \in BOOLEAN, nc \in BOOLEAN :
        InitOf(sc, [Flags(dry, FALSE) EXCEPT !.quiet = q, !.verbose = v, !.noColor = nc])

\* the link command under every --quiet, --verbose and --no-color
SpecNarration == InitNarration /\ [][Next]_vars

\* two sections, each with every phase
PhaseConf(p1, p2) ==
    << FullConf(p1, p2)[1],
       [Section(p2, <<Decl(TA, SY), Decl(TDEA, SX)>>) EXCEPT
            !.create = << <<"~", Sep, "d", Sep, "e">> >>,
            !.git = << [path |-> <<"~", Sep, "b">>, url |-> "u2"] >>,
            !.shell = << [command |-> "c2", description |-> "", stdin |-> ""] >>,
            !.pre_link = <<"h6">>,
            !.post_link = <<"h7">>,
            !.pre_shell = <<"h8">>,
            !.post_shell = <<"h9">>] >>

PhaseScenarios ==
    {[Scenario(PhaseConf(p1, p2), PutAll(BaseFs, a \o d)) EXCEPT !.failing = bad] :
        p1 \in {NoDefaults, Defaults("true", "true", "true")},
        p2 \in {NoDefaults, Defaults("true", "true", "true")},
        a \in {<< >>, << <<KeyA, File(1)>> >>}, d \in {<< >>, << <<KeyD, File(1)>> >>},
        bad \in {{}, {"h1", "c1"}, {"h6", "u2"}, {"h3", "u", "h5"}}}

InitPhases == \E sc \in PhaseScenarios, dry \in BOOLEAN : InitOf(sc, Flags(dry, FALSE))

\* the link command on two sections with every phase
SpecPhases == InitPhases /\ [][Next]_vars

\* a section with every phase whose one declaration has a target that is the
\* source, written as it resolves or through the home directory, or the
\* directory the source is in, or ~/a
SelfScenarios ==
    {Scenario(<< [Section(p, <<Decl(t, src)>>) EXCEPT
                     !.create = << <<"~", Sep, "d">> >>,
                     !.git = << [path |-> <<"~", Sep, "g">>, url |-> "u"] >>,
                     !.shell = << [command |-> "c1", description |-> "", stdin |-> ""] >>,
                     !.pre_link = <<"h1">>] >>,
              PutAll(BaseFs, a)) :
        p \in SomeDefaults,
        t \in {<<Sep, "s", Sep, "x">>, <<"~", Sep, "..", Sep, "s", Sep, "x">>, <<Sep, "s">>, TA},
        src \in {SX, SY},
        a \in {<< >>, << <<KeyA, File(1)>> >>}}

InitSelf == \E sc \in SelfScenarios, dry \in BOOLEAN : InitOf(sc, Flags(dry, FALSE))

\* the link command on a target that is, or holds, a declared source
SpecSelf == InitSelf /\ [][Next]_vars

\* what is in ~/d, a directory of mode 0555
DeniedOpts ==
    { << >>,
      << <<Append(KeyD, "a"), File(1)>> >>,
      << <<Append(KeyD, "a"), DirN>>, <<KeyD \o <<"a", "f">>, File(2)>> >>,
      << <<Append(KeyD, "b"), Link(<<Sep, "s", Sep, "x">>)>> >>,
      << <<Append(KeyD, "a"), Link(<<Sep, "s", Sep, "x">>)>>,
         <<Append(KeyD, "b"), Link(<<Sep, "s", Sep, "x">>)>> >>,
      << <<Append(KeyD, "a"), Link(<<Sep, "s", Sep, "y">>)>>,
         <<Append(KeyD, "b"), Link(<<Sep, "s", Sep, "x">>)>> >> }

\* a section with every phase whose first target lies in ~/d, below it or in
\* the home directory, where a file is; the backup directory may be of mode
\* 0555 as well
DeniedScenarios ==
    {Scenario(<< [Section(p, <<Decl(t, SX), Decl(TB, SY)>>) EXCEPT
                     !.create = << <<"~", Sep, "d", Sep, "e">> >>,
                     !.git = << [path |-> <<"~", Sep, "g">>, url |-> "u"] >>,
                     !.shell = << [command |-> "c1", description |-> "", stdin |-> ""] >>,
                     !.pre_link = <<"h1">>] >>,
              PutAll(BaseFs, << <<KeyD, DirRO>>, <<KeyA, File(1)>> >> \o o \o k)) :
        p \in SomeDefaults, t \in {TA, TDA, TDEA}, o \in DeniedOpts,
        k \in {<< >>, << <<KeyBk, DirRO>> >>}}

InitDenied == \E sc \in DeniedScenarios, dry \in BOOLEAN : InitOf(sc, Flags(dry, FALSE))

\* the link command where the filesystem refuses changes
SpecDenied == InitDenied /\ [][Next]_vars

\* the defaults a section of part_000 declares: force and relink alone
Defaults0 == {NoDefaults} \cup {Defaults(f, r, "unset") : f \in YamlBools, r \in YamlBools}

MainScenarios ==
    {Scenario(<<Section(p, <<Decl(TA, SX)>>)>>, PutAll(BaseFs, a \o b)) :
        p \in Defaults0, a \in AOpts, b \in BOpts}
    \cup {[Scenario(<< [Section(p, <<Decl(TA, SX), Decl(TDA, SY)>>) EXCEPT
                           !.create = << <<"~", Sep, "d">> >>,
                           !.git = << [path |-> <<"~", Sep, "g">>, url |-> "u"] >>,
                           !.shell = << [command |-> "c1", description |-> "", stdin |-> ""] >>],
                       Section(p, <<Decl(TU, SX)>>) >>,
                     PutAll(BaseFs, a)) EXCEPT !.failing = bad] :
            p \in {NoDefaults, Defaults("true", "true", "unset")},
            a \in {<< >>, << <<KeyA, File(1)>> >>}, bad \in {{}, {"u", "c1"}}}

InitMain == \E sc \in MainScenarios, dry \in BOOLEAN : InitOf(sc, Flags(dry, FALSE))

\* the program of part_000
SpecMain == InitMain /\ [][NextMain]_vars

\* a common section, a section of profile p with every phase and a section of
\* profile q; each declares a target of its own
Common == Section(NoDefaults, <<Decl(TA, SX)>>)

ForP ==
    [Section(Defaults("true", "true", "true"), <<Decl(TB, SY)>>) EXCEPT
        !.profile = "p",
        !.create = << <<"~", Sep, "d">> >>,
        !.git = << [path |-> <<"~", Sep, "g">>, url |-> "u"] >>,
        !.shell = << [command |-> "c1", description |-> "", stdin |-> ""] >>,
        !.pre_link = <<"h1">>,
        !.post_shell = <<"h5">>]

ForQ ==
    [Section(NoDefaults, <<Decl(TDA, SX)>>) EXCEPT
        !.profile = "q",
        !.git = << [path |-> <<"~", Sep, "e">>, url |-> "v"] >>,
        !.shell = << [command |-> "c2", description |-> "", stdin |-> ""] >>,
        !.pre_shell = <<"h4">>]

\* the section of profile q with one required field left empty
Mistakes ==
    { [ForQ EXCEPT !.link = <<Decl(<< >>, SX)>>],
      [ForQ EXCEPT !.link = <<Decl(TDA, << >>)>>],
      [ForQ EXCEPT !.git = << [path |-> << >>, url |-> "v"] >>],
      [ForQ EXCEPT !.git = << [path |-> <<"~", Sep, "e">>, url |-> ""] >>],
      [ForQ EXCEPT !.shell = << [command |-> "", description |-> "", stdin |-> ""] >>] }

Profiles == {"", "p", "q", "r"}

LoadScenarios ==
    {Scenario(<<Common, ForP, q>>, PutAll(BaseFs, a)) :
        q \in {ForQ} \cup Mistakes,
        a \in {<< >>, << <<KeyA, Link(<<Sep, "s", Sep, "y">>)>>, <<KeyB, File(1)>> >>}}
    \cup {Scenario(<<q, Common>>, BaseFs) : q \in Mistakes}

InitLoad ==
    \E sc \in LoadScenarios, prof \in Profiles, dry \in BOOLEAN :
        InitOf(sc, [Flags(dry, FALSE) EXCEPT !.profile = prof])

\* every command on a configuration with profiles, run with every --profile
SpecLoad == InitLoad /\ [][NextCmds]_vars

(***************************************************************************)
(* What the claims speak about: one createLink call c of the history, the  *)
(* filesystem before (c.pre) and after it (c.post), and what it logged.    *)
(***************************************************************************)
TargetPathOf(c) == expandPath(c.target, homeDir)
SourcePathOf(c) == Abs(expandSourcePath(c.source, homeDir, execDir))

\* the target as a non-dereferencing stat sees it before the call
TargetBefore(c) == Lstat(c.pre, TargetPathOf(c))
TargetAfter(c) == Lstat(c.post, TargetPathOf(c))

\* what is stored at key k and below it: relative keys with their nodes
Content(f, k) ==
    {<<SubSeq(x, Len(k) + 1, Len(x)), f[x]>> : x \in {y \in DOMAIN f : y = k \/ IsUnder(y, k)}}

\* the path is a symbolic link whose resolved destination is sourcePath
IsLinkTo(f, targetPath, sourcePath) ==
    /\ Lstat(f, targetPath).err = "ok"
    /\ Lstat(f, targetPath).node.t = "link"
    /\ AbsDest(Dir(targetPath), Lstat(f, targetPath).node.d) = sourcePath

NonSymlinkTarget(c) ==
    TargetBefore(c).err = "ok" /\ TargetBefore(c).node.t \in {"file", "dir"}

WrongSymlinkTarget(c) ==
    /\ TargetBefore(c).err = "ok"
    /\ TargetBefore(c).node.t = "link"
    /\ ~IsLinkTo(c.pre, TargetPathOf(c), SourcePathOf(c))

SourceExists(c) == checkPathExists(c.pre, SourcePathOf(c)).exists
SourceMissing(c) ==
    ~checkPathExists(c.pre, SourcePathOf(c)).exists /\ ~checkPathExists(c.pre, SourcePathOf(c)).err

\* the parent of the target, by a non-dereferencing stat
ParentBefore(c) == checkPathExists(c.pre, Dir(TargetPathOf(c)))
ParentIsDir(c) == ParentBefore(c).exists /\ ParentBefore(c).isDir
ParentInvalid(c) == ParentBefore(c).exists /\ ~ParentBefore(c).isDir

\* what the call logged, in order
Said(c) == SubSeq(c.after.narr, Len(c.before.narr) + 1, Len(c.after.narr))
Reported(c, level, msg) ==
    \E i \in DOMAIN Said(c) : Said(c)[i][1] = level /\ Said(c)[i][2] = msg

\* the target is what it was: same node, same content below it, no link made
TargetUntouched(c) ==
    /\ TargetAfter(c) = TargetBefore(c)
    /\ Content(c.post, TargetBefore(c).key) = Content(c.pre, TargetBefore(c).key)
    /\ ~Reported(c, "info", "Creating symlink")

SkipNotSymlink == "Path exists and is not a symlink (use force=true)"

AllCalls(P(_)) == \A i \in DOMAIN calls : P(calls[i])
SomeCall(P(_)) == \E i \in DOMAIN calls : P(calls[i])

(***************************************************************************)
(* C1  No-force safety.                                                    *)
(***************************************************************************)
C1_Safe(c) == (NonSymlinkTarget(c) /\ ~c.force) => TargetUntouched(c)

C1_ReportsSkip(c) ==
    (NonSymlinkTarget(c) /\ ~c.force) => Reported(c, "warn", SkipNotSymlink)

C1_ReportsFirstCheck(c) ==
    (NonSymlinkTarget(c) /\ ~c.force) =>
        IF SourceMissing(c) THEN Reported(c, "error", "Source path does not exist")
        ELSE IF ParentInvalid(c)
        THEN Reported(c, "error", "Parent path exists but is not a directory")
        ELSE Reported(c, "warn", SkipNotSymlink)

\* C1 (as amended): a createLink call whose target exists and is not a symbolic
\* link, with force=false, leaves the target and its content unchanged and makes
\* no link, under every relink/backup and with dry-run on or off; it reports
\* 'Path exists and is not a symlink' unless an earlier check ends the call: a
\* missing source or a parent that is not a directory is reported instead.
C1_NoForceSafety ==
    AllCalls(LAMBDA c : C1_Safe(c) /\ C1_ReportsFirstCheck(c))

\* C1 as stated: the skip 'Path exists and is not a symlink' is reported for
\* every such declaration.
C1_AsStated ==
    AllCalls(LAMBDA c : C1_Safe(c) /\ C1_ReportsSkip(c))

\* a directory with a file in it was left alone by a call with force=false and
\* relink=true, and the skip was reported
C1_Witness ==
    SomeCall(LAMBDA c : /\ NonSymlinkTarget(c) /\ ~c.force /\ c.relink
                        /\ TargetBefore(c).node.t = "dir"
                        /\ Cardinality(Content(c.pre, TargetBefore(c).key)) = 2
                        /\ Reported(c, "warn", SkipNotSymlink)
                        /\ ~flags.dryRun)

(***************************************************************************)
(* C2  Backup before overwrite.                                            *)
(***************************************************************************)
BackupKey(c) == Split(getBackupPath(TargetPathOf(c)))

C2_Case(c) ==
    /\ NonSymlinkTarget(c) /\ SourceExists(c)
    /\ c.force /\ c.backup /\ ~flags.dryRun

\* C2 as stated: after a createLink call on a target that is a file or a
\* directory, with the source there, force=true, backup=true and dry-run off, the
\* backup path holds exactly what the target held, and the target is a symbolic
\* link to the source.
C2_BackupBeforeOverwrite ==
    AllCalls(LAMBDA c : C2_Case(c) =>
        /\ Content(c.post, BackupKey(c)) = Content(c.pre, TargetBefore(c).key)
        /\ IsLinkTo(c.post, TargetPathOf(c), SourcePathOf(c)))

(***************************************************************************)
(* C3  Idempotence of a pass.                                              *)
(***************************************************************************)
CorrectOutcomes == {"Created", "Relinked", "Overwritten", "AlreadyCorrect"}

SecondPass == cmd.name = "link" /\ prev.cmd.name = "link" /\ ~flags.dryRun

\* the first pass ended declaration c with a correct link, which was still
\* there when the second pass started
LinkedByFirstPass(c) ==
    /\ \E i \in DOMAIN prev.calls :
          /\ prev.calls[i].sec = c.sec /\ prev.calls[i].idx = c.idx
          /\ prev.calls[i].after.outcome \in CorrectOutcomes
    /\ IsLinkTo(fs0, TargetPathOf(c), SourcePathOf(c))

\* C3 as stated: in a second RunLink over the same configuration, every
\* declaration the first one ended with a correct link reaches 'Symlink already
\* correct' and changes nothing in the filesystem.
C3_Idempotence ==
    SecondPass =>
        AllCalls(LAMBDA c : LinkedByFirstPass(c) =>
            /\ Reported(c, "info", "Symlink already correct")
            /\ c.post = c.pre)

(***************************************************************************)
(* C4  Dry-run is a no-op.                                                 *)
(***************************************************************************)
\* C4 as stated: with --dry-run no command changes the filesystem it started on
\* and no hook, clone or shell command is executed.
C4_DryRunNoOp == flags.dryRun => (fs = fs0 /\ ran = << >>)

(***************************************************************************)
(* C5  Wrong-symlink policy.                                               *)
(***************************************************************************)
C5_Case(c) == WrongSymlinkTarget(c) /\ SourceExists(c) /\ ~flags.dryRun

C5_Policy(c) ==
    IF c.relink
    THEN IsLinkTo(c.post, TargetPathOf(c), SourcePathOf(c))
    ELSE TargetUntouched(c)

\* C5 (as amended): when the target is a symbolic link to another destination,
\* the source exists, the target's parent is a directory by a non-dereferencing
\* stat and dry-run is off, relink=true ends with the target a link to the source
\* and relink=false leaves the target as it was, whatever force and backup are;
\* under a parent that is itself a symbolic link the target is left as it was.
C5_WrongSymlinkPolicy ==
    AllCalls(LAMBDA c : C5_Case(c) =>
        IF ParentIsDir(c) THEN C5_Policy(c) ELSE TargetUntouched(c))

\* C5 as stated: relink alone decides, for every such target.
C5_AsStated == AllCalls(LAMBDA c : C5_Case(c) => C5_Policy(c))

\* a wrong link was replaced under relink=true with force and backup unset
C5_Witness ==
    SomeCall(LAMBDA c : /\ C5_Case(c) /\ ParentIsDir(c) /\ c.relink
                        /\ ~c.force /\ ~c.backup
                        /\ Reported(c, "warn", "Relinking")
                        /\ IsLinkTo(c.post, TargetPathOf(c), SourcePathOf(c)))

(***************************************************************************)
(* C6  Duplicate cleanup.                                                  *)
(***************************************************************************)
ParentKeyOf(c) == Lstat(c.pre, Dir(TargetPathOf(c))).key
SiblingPath(c, n) == Join(Dir(TargetPathOf(c)), <<n>>)

\* the names in the target's parent, the target's own left out
Siblings(c, f) == Entries(f, ParentKeyOf(c)) \ {Base(TargetPathOf(c))[1]}

IsAlias(c, f, n) == IsLinkTo(f, SiblingPath(c, n), SourcePathOf(c))

C6_Case(c) == SourceExists(c) /\ ParentIsDir(c) /\ ~flags.dryRun

Removing == "Removing existing path (force=true)"

\* C7 as stated: when the link command removes a target that is no symbolic link
\* because force=true, it has created a backup first, unless --no-backup was given
\* or the section's defaults say backup: false.
C7_AutomaticBackups ==
    cmd.name = "link" =>
        AllCalls(LAMBDA c :
            (/\ NonSymlinkTarget(c) /\ Reported(c, "warn", Removing)
             /\ ~flags.dryRun /\ ~flags.noBackup
             /\ configs[c.sec].defaults.backup # "false")
            => Reported(c, "info", "Creating backup"))

(***************************************************************************)
(* C8  Source order.                                                       *)
(***************************************************************************)
\* C8 as stated: createLink is called for the declarations of a section in the
\* order they are declared in, section after section.
C8_SourceOrder ==
    \A i \in DOMAIN calls : \A j \in DOMAIN calls :
        i < j => \/ calls[i].sec < calls[j].sec
                 \/ calls[i].sec = calls[j].sec /\ calls[i].idx < calls[j].idx

(***************************************************************************)
(* C9  Failure isolation.                                                  *)
(***************************************************************************)
CallsOf(sec, idx) == {i \in DOMAIN calls : calls[i].sec = sec /\ calls[i].idx = idx}

\* every declaration of the sections from..to has been processed exactly once
ProcessedOnce(from, to) ==
    \A sec \in from..to : \A idx \in 1..Len(configs[sec].link) :
        Cardinality(CallsOf(sec, idx)) = 1

\* the guards of the steps of App.RunLink: one of them can be taken
HasNextStep ==
    \/ InPhase(HookPhases \cup {"create", "shell"})
    \/ InPhase({"link", "git"}) /\ (1..Len(Items(configs[pc.sec], pc.ph))) \ pc.seen # {}
    \/ pc.at = "summary"

\* C9: in RunLink no declaration is processed twice, every section left behind
\* has had each of its declarations processed once, a next step is always there
\* until the summary is printed, the summary is printed once, after the last
\* section, and the command ends by returning nil, whatever failed on the way.
C9_FailureIsolation ==
    cmd.name = "link" =>
        /\ pc.at \in {"link", "summary", "done"}
        /\ \A i \in DOMAIN calls : Cardinality(CallsOf(calls[i].sec, calls[i].idx)) = 1
        /\ pc.at = "link" => ProcessedOnce(1, pc.sec - 1)
        /\ pc.at \in {"summary", "done"} => ProcessedOnce(1, Len(configs))
        /\ summaries = (IF pc.at = "done" THEN 1 ELSE 0)
        /\ pc.at \in {"link", "summary"} => HasNextStep

\* a run over two sections ended with its three declarations processed and the
\* summary printed, after a hook and the clone had failed and os.Symlink had
\* failed for a declaration that was not the last
C9_Witness ==
    /\ cmd.name = "link" /\ pc.at = "done" /\ summaries = 1
    /\ Len(configs) = 2 /\ Len(calls) = 3
    /\ failing = {"h3", "u", "h5"}
    /\ \E i \in 1..(Len(calls) - 1) : Reported(calls[i], "error", "Error creating symlink")
    /\ logger.errorCount >= 3
    /\ ~flags.dryRun

(***************************************************************************)
(* C10  Recoverable conditions and the counters.                           *)
(***************************************************************************)
Delta(c, counter) == c.after[counter] - c.before[counter]

WrongSymlinkKept(c) == WrongSymlinkTarget(c) /\ ~c.relink
NonSymlinkKept(c) == NonSymlinkTarget(c) /\ ~c.force

\* the warnings of the call that duplicate cleanup gave
DuplicateWarnings(c) ==
    Cardinality({i \in DOMAIN Said(c) :
                    Said(c)[i][1] = "warn" /\ Said(c)[i][2] = "Found duplicate symlink"})

\* C10 (as amended): each of the four conditions skips the declaration, the
\* target left as it was. A missing source and a parent that is not a directory
\* are logged as errors: the error counter goes up by one, the warning counter
\* stays, the filesystem is untouched. A target that is no symbolic link under
\* force=false is logged as a warning: the warning counter goes up by one (beyond
\* the duplicates removed), the error counter stays. A symbolic link to another
\* destination under relink=false is logged as information: neither counter
\* moves for it.
C10_RecoverableConditions ==
    AllCalls(LAMBDA c :
        /\ (SourceMissing(c) \/ (SourceExists(c) /\ ParentInvalid(c))) =>
              /\ c.post = c.pre
              /\ Delta(c, "errorCount") = 1 /\ Delta(c, "warnCount") = 0
        /\ (SourceExists(c) /\ ~ParentInvalid(c) /\ NonSymlinkKept(c)) =>
              /\ TargetUntouched(c)
              /\ Delta(c, "errorCount") = 0
              /\ Delta(c, "warnCount") = 1 + DuplicateWarnings(c)
        /\ (SourceExists(c) /\ ~ParentInvalid(c) /\ WrongSymlinkKept(c)) =>
              /\ TargetUntouched(c)
              /\ Reported(c, "info", "Existing symlink left unchanged")
              /\ Delta(c, "errorCount") = 0
              /\ Delta(c, "warnCount") = DuplicateWarnings(c)
        /\ (SourceMissing(c) \/ ParentInvalid(c) \/ NonSymlinkKept(c) \/ WrongSymlinkKept(c))
              => Delta(c, "successCount") = 0)

\* C10 as stated: each of the four conditions skips the declaration, increments
\* the warning counter and leaves the error counter.
C10_AsStated ==
    AllCalls(LAMBDA c :
        (SourceMissing(c) \/ ParentInvalid(c) \/ NonSymlinkKept(c) \/ WrongSymlinkKept(c))
        => /\ TargetUntouched(c)
           /\ Delta(c, "warnCount") > 0
           /\ Delta(c, "errorCount") = 0)

\* one run met a target that is no symbolic link under force=false and a link to
\* another destination under relink=false; an earlier run met a missing source
C10_Witness ==
    /\ SomeCall(LAMBDA c : SourceExists(c) /\ NonSymlinkKept(c) /\ Delta(c, "warnCount") = 1)
    /\ SomeCall(LAMBDA c : SourceExists(c) /\ WrongSymlinkKept(c) /\ Delta(c, "warnCount") = 0)

(***************************************************************************)
(* C11  Status classification.                                             *)
(***************************************************************************)
\* the status command has just printed its report
Reporting == cmd.name = "status" /\ pc.at = "done" /\ lastOp = "start"

DeclOf(x) == configs[x[1]].link[x[2]]

\* the entries of the report for a declaration
EntriesOf(d) ==
    {k \in DOMAIN report :
        /\ report[k].Target = expandPath(d.target, homeDir)
        /\ report[k].Source = Abs(expandSourcePath(d.source, homeDir, execDir))}

StatusOf(d) == report[CHOOSE k \in EntriesOf(d) : TRUE].Status

\* the declared target as the filesystem has it
TargetNow(d) == Lstat(fs, expandPath(d.target, homeDir))
TargetIsLink(d) == TargetNow(d).err = "ok" /\ TargetNow(d).node.t = "link"
DestDiffers(d) ==
    AbsDest(Dir(expandPath(d.target, homeDir)), TargetNow(d).node.d)
        # Abs(expandSourcePath(d.source, homeDir, execDir))
DestReachable(d) == Stat(fs, expandPath(d.target, homeDir)).err = "ok"

\* one entry for each declaration, and the four classes no one disputes
C11_Common(d) ==
    /\ EntriesOf(d) # {}
    /\ Len(report) = Cardinality(Declared(configs))
    /\ IsNotExist(TargetNow(d).err) => StatusOf(d) = StatusMissing
    /\ (TargetNow(d).err # "ok" /\ ~IsNotExist(TargetNow(d).err)) => StatusOf(d) = StatusBroken
    /\ (TargetNow(d).err = "ok" /\ ~TargetIsLink(d)) => StatusOf(d) = StatusNotSymlink
    /\ (TargetIsLink(d) /\ ~DestReachable(d)) => StatusOf(d) = StatusBroken
    /\ StatusOf(d) = StatusOK => (TargetIsLink(d) /\ ~DestDiffers(d) /\ DestReachable(d))

\* C11 (as amended): the status command reports every declaration once, as
\* MISSING when the target is absent, NOT_SYMLINK when it exists and is not a
\* symbolic link, BROKEN when the probe fails otherwise or the link's destination
\* cannot be reached, MISMATCH when the link's destination can be reached and
\* differs from the declared source, and OK in the remaining case alone.
C11_StatusClassification ==
    Reporting => \A x \in Declared(configs) :
        /\ C11_Common(DeclOf(x))
        /\ (TargetIsLink(DeclOf(x)) /\ DestReachable(DeclOf(x)))
              => (StatusOf(DeclOf(x)) = StatusMismatch <=> DestDiffers(DeclOf(x)))

\* C11 as stated: MISMATCH whenever the link's destination differs from the
\* declared source, reachable or not.
C11_AsStated ==
    Reporting => \A x \in Declared(configs) :
        /\ C11_Common(DeclOf(x))
        /\ (TargetIsLink(DeclOf(x)) /\ DestDiffers(DeclOf(x)))
              => StatusOf(DeclOf(x)) = StatusMismatch

\* a report with a dangling link to another destination, reported BROKEN
C11_Witness ==
    /\ Reporting
    /\ \E x \in Declared(configs) :
         /\ TargetIsLink(DeclOf(x)) /\ DestDiffers(DeclOf(x)) /\ ~DestReachable(DeclOf(x))
         /\ StatusOf(DeclOf(x)) = StatusBroken

(***************************************************************************)
(* C12  Unlink with restore.                                               *)
(***************************************************************************)
Unlinking == cmd.name = "unlink" /\ ~flags.dryRun

\* the backup of the call's target, before the call
BackupBefore(c) == checkPathExists(c.pre, getBackupPath(TargetPathOf(c)))
BackupContent(c) == Content(c.pre, Lstat(c.pre, getBackupPath(TargetPathOf(c))).key)

AbsentTarget(c) == IsNotExist(TargetBefore(c).err)
SymlinkTarget(c) == TargetBefore(c).err = "ok" /\ TargetBefore(c).node.t = "link"

\* the target holds a copy of what the backup held
Restored(c) ==
    /\ TargetAfter(c).err = "ok"
    /\ Content(c.post, TargetAfter(c).key) = BackupContent(c)

\* C12 as stated: unlink --restore leaves a copy of the backup at every declared
\* target that was absent or a symbolic link and has a backup.
C12_UnlinkRestores ==
    (Unlinking /\ cmd.restore) =>
        AllCalls(LAMBDA c :
            ((AbsentTarget(c) \/ SymlinkTarget(c)) /\ BackupBefore(c).exists) => Restored(c))

(***************************************************************************)
(* C13  Unlink removes symbolic links only.                                *)
(***************************************************************************)
\* C13: unlink removes the declared target when it is a symbolic link, leaves a
\* file or a directory as it is, changes nothing for a target that is absent or
\* not a symbolic link, and goes on to the next declaration: at the end every
\* declaration has been visited once and the summary is printed.
C13_UnlinkSymlinksOnly ==
    Unlinking =>
        /\ AllCalls(LAMBDA c :
             /\ SymlinkTarget(c) =>
                  /\ Reported(c, "success", "Removed")
                  /\ TargetAfter(c).err = "ok" => TargetAfter(c).node.t # "link"
                  /\ (~cmd.restore \/ ~BackupBefore(c).exists) => IsNotExist(TargetAfter(c).err)
             /\ NonSymlinkTarget(c) =>
                  /\ TargetAfter(c) = TargetBefore(c)
                  /\ Content(c.post, TargetBefore(c).key) = Content(c.pre, TargetBefore(c).key)
             /\ ~SymlinkTarget(c) => c.post = c.pre)
        /\ \A i \in DOMAIN calls : Cardinality(CallsOf(calls[i].sec, calls[i].idx)) = 1
        /\ pc.at \in {"unlink", "summary", "done"}
        /\ pc.at \in {"summary", "done"} => ProcessedOnce(1, Len(configs))
        /\ summaries = (IF pc.at = "done" THEN 1 ELSE 0)

\* an unlink over two declarations ended: a directory was skipped and kept, and
\* the symbolic link declared with it was removed
C13_Witness ==
    /\ Unlinking /\ pc.at = "done" /\ Len(calls) = 2
    /\ SomeCall(LAMBDA c : NonSymlinkTarget(c) /\ TargetBefore(c).node.t = "dir"
                           /\ Reported(c, "warn", "Not a symlink, skipping"))
    /\ SomeCall(LAMBDA c : SymlinkTarget(c) /\ IsNotExist(TargetAfter(c).err))

(***************************************************************************)
(* C14  Profile filter.                                                    *)
(***************************************************************************)
\* the sections of the configuration file that declare the target and the source
SectionsOf(t, src) ==
    {i \in DOMAIN conf : \E j \in DOMAIN conf[i].link : conf[i].link[j] = Decl(t, src)}

\* the sections that declare an external command: a hook, a repository, a command
SectionsRunning(x) ==
    {i \in DOMAIN conf :
        \/ x[1] = "hook" /\ \E ph \in HookPhases :
                                \E j \in DOMAIN conf[i][ph] : conf[i][ph][j] = x[2]
        \/ x[1] = "git" /\ \E j \in DOMAIN conf[i].git : conf[i].git[j].url = x[2]
        \/ x[1] = "shell" /\ \E j \in DOMAIN conf[i].shell : conf[i].shell[j].command = x[2]}

\* every section the running command has applied has a profile among P
AppliedOnly(P) ==
    /\ \A i \in DOMAIN configs : configs[i].profile \in P
    /\ AllCalls(LAMBDA c : \A i \in SectionsOf(c.target, c.source) : conf[i].profile \in P)
    /\ \A k \in DOMAIN ran : \A i \in SectionsRunning(ran[k]) : conf[i].profile \in P
    /\ \A k \in DOMAIN report : \E i \in DOMAIN conf :
         /\ conf[i].profile \in P
         /\ \E j \in DOMAIN conf[i].link :
              expandPath(conf[i].link[j].target, homeDir) = report[k].Target

Mistaken(cfg) ==
    \/ \E j \in DOMAIN cfg.link : << >> \in {cfg.link[j].target, cfg.link[j].source}
    \/ \E j \in DOMAIN cfg.git : cfg.git[j].path = << >> \/ cfg.git[j].url = ""
    \/ \E j \in DOMAIN cfg.shell : cfg.shell[j].command = ""

\* C16: when a section of the configuration file, of whatever profile, has an
\* empty required field, every command returns an error before it does anything:
\* no section is loaded, the filesystem stays as it was, no declaration is
\* visited, no hook, clone or shell command runs and nothing is reported.
C16_ConfigErrorsFatal ==
    (\E i \in DOMAIN conf : Mistaken(conf[i])) =>
        /\ pc.at \in {"idle", "exit"}
        /\ runs > 0 => pc.at = "exit"
        /\ fs = fs0 /\ fs0 = prev.fs0
        /\ configs = << >> /\ calls = << >> /\ ran = << >> /\ report = << >>
        /\ summaries = 0

\* two commands have returned an error on a file whose section of profile q has
\* an empty shell command, run with --profile p
C16_Witness ==
    /\ runs = 2 /\ pc.at = "exit" /\ flags.profile = "p" /\ ~flags.dryRun
    /\ \E i \in DOMAIN conf : conf[i].profile = "q" /\ conf[i].shell # << >>
                              /\ conf[i].shell[1].command = ""
    /\ fs = fs0

(***************************************************************************)
(* C15  --no-backup.                                                       *)
(***************************************************************************)
\* the section the call belongs to declares backup: true
DeclaresBackup(c) == configs[c.sec].defaults.present /\ configs[c.sec].defaults.backup = "true"

\* C15: with --no-backup the link command leaves the backup directory and all
\* that is below it as it was when the command started, and no createLink call
\* starts a backup, whatever the defaults of the section declare.
C15_NoBackupFlag ==
    (flags.noBackup /\ cmd.name = "link") =>
        /\ Lstat(fs, backupDir) = Lstat(fs0, backupDir)
        /\ Content(fs, KeyBk) = Content(fs0, KeyBk)
        /\ AllCalls(LAMBDA c : ~c.backup /\ ~Reported(c, "info", "Creating backup")
                               /\ Content(c.post, KeyBk) = Content(c.pre, KeyBk))

\* under --no-backup a file was overwritten by force in a section that declares
\* backup: true, next to a backup directory that holds an older backup
C15_Witness ==
    /\ flags.noBackup /\ ~flags.dryRun /\ cmd.name = "link"
    /\ SomeCall(LAMBDA c : /\ DeclaresBackup(c) /\ c.force /\ NonSymlinkTarget(c)
                           /\ Reported(c, "warn", "Removing existing path (force=true)")
                           /\ IsLinkTo(c.post, TargetPathOf(c), SourcePathOf(c))
                           /\ Content(c.post, KeyBk) # {})

(***************************************************************************)
(* C17  Dry-run narration and outcome.                                     *)
(***************************************************************************)
\* the configuration is one section with one link declaration and nothing else
SingleDeclaration ==
    /\ Len(configs) = 1 /\ Len(configs[1].link) = 1
    /\ \A j \in DOMAIN PhaseNames : PhaseNames[j] # "link" => Items(configs[1], j) = << >>

\* what createLink does for the call without --dry-run, from the same filesystem
\* and the same Logger
RealRun(c) ==
    createLink(World(c.pre, [c.before EXCEPT !.dryRun = FALSE]),
               c.target, c.source, c.force, c.relink, c.backup)

SameNarration(w) ==
    /\ w.narr = logger.narr
    /\ w.successCount = logger.successCount
    /\ w.warnCount = logger.warnCount
    /\ w.errorCount = logger.errorCount

\* C17 as stated: a dry-run of the link command over one declaration ends with
\* the narration and the counters the run without --dry-run ends with on the same
\* filesystem.
C17_DryRunNarration ==
    (flags.dryRun /\ cmd.name = "link" /\ pc.at = "done" /\ SingleDeclaration /\ Len(calls) = 1)
        => (calls[1].pre = fs0 /\ SameNarration(RealRun(calls[1])))

(***************************************************************************)
(* C18  Fresh create.                                                      *)
(***************************************************************************)
\* nothing is to be found at the path: no entry of that name, or a file on the way
NothingAt(st) == st.err \in {"ENOENT", "ENOTDIR"}

ParentStat(c) == Lstat(c.pre, Dir(TargetPathOf(c)))

FreshlyCreated(c) ==
    /\ IsLinkTo(c.post, TargetPathOf(c), SourcePathOf(c))
    /\ Reported(c, "success", "Created symlink")
    /\ Delta(c, "successCount") = 1

\* C18 (as amended): with dry-run off, the source there, the target absent and
\* its parent a directory, or absent below directories alone (the probe says
\* "no such file"), createLink ends with the target a symbolic link to the
\* source and one more success, under every policy.
C18_FreshCreate ==
    ~flags.dryRun =>
        AllCalls(LAMBDA c :
            (/\ AbsentTarget(c) /\ SourceExists(c)
             /\ ParentIsDir(c) \/ IsNotExist(ParentStat(c).err)) => FreshlyCreated(c))

\* C18 as stated: the same for every absent target whose parent is a directory
\* or absent, a parent below a regular file included.
C18_AsStated ==
    ~flags.dryRun =>
        AllCalls(LAMBDA c :
            (/\ NothingAt(TargetBefore(c)) /\ SourceExists(c)
             /\ ParentIsDir(c) \/ NothingAt(ParentStat(c))) => FreshlyCreated(c))

\* a link was created two levels below an existing directory with force and
\* relink off, its parent being created on the way
C18_Witness ==
    /\ ~flags.dryRun
    /\ SomeCall(LAMBDA c : /\ AbsentTarget(c) /\ SourceExists(c)
                           /\ IsNotExist(ParentStat(c).err)
                           /\ ~c.force /\ ~c.relink
                           /\ Reported(c, "info", "Creating parent directory")
                           /\ FreshlyCreated(c))

(***************************************************************************)
(* C19  Home expansion.                                                    *)
(***************************************************************************)
\* the path createLink announces for the call: expandPath(target, home)
Announced(c) == Said(c)[1][3]

\* what the claim names for a path string
Expanded(path) ==
    IF path = <<"~">> THEN homeDir
    ELSE IF Len(path) >= 2 /\ path[1] = "~" /\ path[2] = Sep
         THEN Clean(homeDir \o <<Sep>> \o SubSeq(path, 3, Len(path)))
         ELSE path

\* C19: expandPath returns the home directory for "~", the home directory
\* joined with the remainder for a path that starts with "~/", and every other
\* path unchanged, absolute paths and "~user" among them; createLink works on
\* the path it returns for the declared target.
C19_HomeExpansion ==
    AllCalls(LAMBDA c :
        /\ Said(c) # << >>
        /\ Said(c)[1][2] = "Processing link"
        /\ Announced(c) = Expanded(c.target)
        /\ expandPath(c.target, homeDir) = Expanded(c.target))

\* createLink worked on "~user/a" as it was written
C19_Witness ==
    SomeCall(LAMBDA c : c.target = <<"~user", Sep, "a">> /\ Announced(c) = c.target)

(***************************************************************************)
(* C20  Idempotence with relink=true in the program of part_000.           *)
(***************************************************************************)
SecondMain == cmd.name = "main" /\ prev.cmd.name = "main" /\ ~flags.dryRun

\* the first application left declaration c with a correct link, still there
\* when the second one comes to it
LinkedByFirstMain(c) ==
    /\ \E i \in DOMAIN prev.calls :
          /\ prev.calls[i].sec = c.sec /\ prev.calls[i].idx = c.idx
          /\ IsLinkTo(prev.calls[i].post, TargetPathOf(c), SourcePathOf(c))
    /\ IsLinkTo(fs0, TargetPathOf(c), SourcePathOf(c))
    /\ IsLinkTo(c.pre, TargetPathOf(c), SourcePathOf(c))

\* C20 as stated: in the second application of the program of part_000, a
\* declaration under relink=true that the first one linked correctly changes
\* nothing in the filesystem, is not linked again and adds no error.
C20_RelinkIdempotence ==
    SecondMain =>
        AllCalls(LAMBDA c : (c.relink /\ LinkedByFirstMain(c)) =>
            /\ c.post = c.pre
            /\ ~Reported(c, "info", "Creating symlink")
            /\ Delta(c, "errorCount") = 0)

(***************************************************************************)
(* C21  Already-correct link.                                              *)
(***************************************************************************)
AlreadyCorrect(c) == IsLinkTo(c.pre, TargetPathOf(c), SourcePathOf(c))

\* C21 as stated: a createLink call whose target is a symbolic link with the
\* resolved source as its resolved destination leaves the target as it was,
\* whatever force, relink and backup are, adds one to the success counter and
\* nothing to the warning and error counters.
C21_AlreadyCorrectLink ==
    AllCalls(LAMBDA c : AlreadyCorrect(c) =>
        /\ TargetUntouched(c)
        /\ Delta(c, "successCount") = 1
        /\ Delta(c, "warnCount") = 0
        /\ Delta(c, "errorCount") = 0)

(***************************************************************************)
(* C22  The missing source ends the declaration first.                     *)
(***************************************************************************)
\* C22: a createLink call whose resolved source does not exist reports 'Source
\* path does not exist' and nothing else but the debug line, and leaves the
\* whole filesystem as it was: the target's parent is not created, no duplicate
\* alias is removed, nothing is backed up and the target is untouched.
C22_SourceMissingFirst ==
    AllCalls(LAMBDA c : SourceMissing(c) =>
        /\ c.post = c.pre
        /\ Reported(c, "error", "Source path does not exist")
        /\ Len(Said(c)) = 2
        /\ Delta(c, "errorCount") = 1)

\* with dry-run off, force and backup set, a run met a missing source twice:
\* once with a file at the target and a dangling alias of the source beside it,
\* once with the target's parent absent; it changed nothing
C22_Witness ==
    /\ ~flags.dryRun /\ pc.at = "done"
    /\ SomeCall(LAMBDA c : /\ SourceMissing(c) /\ NonSymlinkTarget(c) /\ c.force /\ c.backup
                           /\ \E n \in Siblings(c, c.pre) : IsAlias(c, c.pre, n)
                           /\ c.post = c.pre)
    /\ SomeCall(LAMBDA c : /\ SourceMissing(c) /\ ~ParentBefore(c).exists
                           /\ c.post = c.pre)
    /\ fs = fs0

(***************************************************************************)
(* C23  Parent handling.                                                   *)
(***************************************************************************)
\* the call created the target's parent
ParentMade(c) ==
    /\ Reported(c, "info", "Creating parent directory")
    /\ Lstat(c.post, Dir(TargetPathOf(c))).err = "ok"
    /\ Lstat(c.post, Dir(TargetPathOf(c))).node.t = "dir"

\* the call skipped the declaration for its parent and touched nothing
ParentRefused(c) ==
    /\ c.post = c.pre
    /\ Reported(c, "error", "Parent path exists but is not a directory")
    /\ Len(Said(c)) = 2
    /\ Delta(c, "errorCount") = 1

\* C23 (as amended): with the source there, a parent path that exists and is
\* not a directory by a non-dereferencing stat (a file, or a symbolic link even
\* to a directory) skips the declaration with no filesystem change, no duplicate
\* cleanup and no link, dry-run on or off. With dry-run off and the parent
\* absent below directories alone, createLink creates the parent and then the
\* link inside it; with the parent absent below a regular file it can create
\* neither, changes nothing and reports 'Error creating symlink'.
C23_ParentHandling ==
    AllCalls(LAMBDA c : SourceExists(c) =>
        /\ ParentInvalid(c) => ParentRefused(c)
        /\ (~flags.dryRun /\ IsNotExist(ParentStat(c).err)) =>
              ParentMade(c) /\ FreshlyCreated(c)
        /\ (~flags.dryRun /\ ParentStat(c).err = "ENOTDIR") =>
              /\ c.post = c.pre
              /\ Reported(c, "info", "Creating parent directory")
              /\ Reported(c, "error", "Error creating symlink")
              /\ Delta(c, "errorCount") = 1)

\* C23 as stated: whenever the parent is absent, a parent below a regular file
\* included, the parent is created and the link inside it.
C23_AsStated ==
    AllCalls(LAMBDA c : SourceExists(c) =>
        /\ ParentInvalid(c) => ParentRefused(c)
        /\ (~flags.dryRun /\ NothingAt(ParentStat(c))) =>
              ParentMade(c) /\ FreshlyCreated(c))

\* one run created the parent of its first target and the link inside it, and
\* skipped its second declaration, whose parent is a symbolic link to a
\* directory that holds an alias of the source: the alias is still there
C23_Witness ==
    /\ ~flags.dryRun
    /\ SomeCall(LAMBDA c : /\ SourceExists(c) /\ IsNotExist(ParentStat(c).err)
                           /\ ParentMade(c) /\ FreshlyCreated(c))
    /\ SomeCall(LAMBDA c : /\ SourceExists(c) /\ ParentInvalid(c)
                           /\ ParentStat(c).node.t = "link"
                           /\ ParentRefused(c)
                           /\ NodeAt(c.post, <<"s", "b">>) = Link(<<Sep, "s", Sep, "x">>))

(***************************************************************************)
(* C24  Absolute resolution.                                               *)
(***************************************************************************)
\* C24 as stated: whatever the declared target and source strings are, the
\* target path createLink announces, probes and links and the source path it
\* compares and links to are both absolute.
C24_AbsoluteResolution ==
    AllCalls(LAMBDA c : /\ Announced(c) = TargetPathOf(c)
                        /\ IsAbs(TargetPathOf(c))
                        /\ IsAbs(SourcePathOf(c)))

(***************************************************************************)
(* C25  Uniform failure counting.                                          *)
(***************************************************************************)
\* the actions of the call that failed: creating the parent, removing an
\* alias, the old link or the existing path, copying the backup, os.Symlink
FailedActions(c) == c.after.failures - c.before.failures

\* C25 as stated: in the link command, a createLink call in which a mutating
\* operation failed adds to the error counter, and every declaration is
\* processed whatever failed before it.
C25_UniformFailureCounting ==
    cmd.name = "link" =>
        /\ AllCalls(LAMBDA c : FailedActions(c) > 0 => Delta(c, "errorCount") > 0)
        /\ pc.at \in {"summary", "done"} => ProcessedOnce(1, Len(configs))

(***************************************************************************)
(* C26  Status report ordering.                                            *)
(***************************************************************************)
\* C26 as stated: in the report of the status command every link that is not OK
\* comes before every link that is OK, links of equal status come in the order
\* of their target paths, and the declarations and the filesystem leave one
\* report only, in whatever order the declarations are visited.
C26_StatusOrdering ==
    Reporting =>
        /\ \A i, j \in DOMAIN report : i < j =>
              /\ report[i].Status = StatusOK => report[j].Status = StatusOK
              /\ report[i].Status = report[j].Status =>
                    ~PathLess(report[j].Target, report[i].Target)
        /\ RunStatus(fs, configs) = {report}

(***************************************************************************)
(* C27  restoreBackup.                                                     *)
(***************************************************************************)
\* the world restoreBackup is called in: RunUnlink has removed the link
Unlinked(c) ==
    [NewLogger(IF flags.dryRun THEN c.pre ELSE Remove(c.pre, TargetPathOf(c)).fs,
               flags.dryRun) EXCEPT !.successCount = c.before.successCount + 1,
                                     !.warnCount = c.before.warnCount,
                                     !.errorCount = c.before.errorCount]

AfterRestore(c) == restoreBackup(Unlinked(c), TargetPathOf(c))

\* everything but what is at the target and below it
Elsewhere(f, c) ==
    [x \in {y \in DOMAIN f : ~(y = TargetBefore(c).key \/ IsUnder(y, TargetBefore(c).key))}
        |-> f[x]]

\* C27: restoreBackup, called by unlink --restore once the link is removed,
\* changes nothing on the filesystem and no counter when there is no backup at
\* getBackupPath(target); when there is one, it copies what the backup holds to
\* the target (a directory with what is below it), changes nothing else, leaves
\* the backup as it was and counts one success; under dry-run it copies nothing.
C27_RestoreBackup ==
    (cmd.name = "unlink" /\ cmd.restore) =>
        AllCalls(LAMBDA c : SymlinkTarget(c) =>
            /\ c.post = AfterRestore(c).fs
            /\ c.after.successCount = AfterRestore(c).successCount
            /\ Content(c.post, BackupKey(c)) = Content(c.pre, BackupKey(c))
            /\ Elsewhere(c.post, c) = Elsewhere(c.pre, c)
            /\ IF ~BackupBefore(c).exists
               THEN /\ AfterRestore(c).fs = Unlinked(c).fs
                    /\ AfterRestore(c).successCount = Unlinked(c).successCount
                    /\ Delta(c, "warnCount") = 0 /\ Delta(c, "errorCount") = 0
                    /\ Reported(c, "debug", "No backup found for")
               ELSE /\ Reported(c, "success", "Restored")
                    /\ Delta(c, "successCount") = 2
                    /\ Delta(c, "warnCount") = 0 /\ Delta(c, "errorCount") = 0
                    /\ IF flags.dryRun THEN c.post = c.pre ELSE Restored(c))

\* unlink --restore brought back a directory and the file in it, and the backup
\* is still there
C27_Witness ==
    /\ cmd.name = "unlink" /\ cmd.restore /\ ~flags.dryRun
    /\ SomeCall(LAMBDA c : /\ SymlinkTarget(c) /\ BackupBefore(c).exists /\ BackupBefore(c).isDir
                           /\ Cardinality(BackupContent(c)) = 2
                           /\ Restored(c)
                           /\ TargetAfter(c).node.t = "dir"
                           /\ Content(c.post, BackupKey(c)) = BackupContent(c))

(***************************************************************************)
(* C28  The same target in two sections.                                   *)
(***************************************************************************)
\* calls i and j are for one target path, declared in two sections with two
\* sources that both exist
Conflict(i, j) ==
    /\ calls[i].sec < calls[j].sec
    /\ TargetPathOf(calls[i]) = TargetPathOf(calls[j])
    /\ SourcePathOf(calls[i]) # SourcePathOf(calls[j])
    /\ SourceExists(calls[i]) /\ SourceExists(calls[j])

LaterWins(i, j) ==
    IsLinkTo(calls[j].post, TargetPathOf(calls[j]), SourcePathOf(calls[j]))

\* the later call, by the policy of its own section, on what the earlier left
LaterByPolicy(c1, c2) ==
    /\ TargetBefore(c2) = TargetAfter(c1)
    /\ IsLinkTo(c1.post, TargetPathOf(c1), SourcePathOf(c1)) =>
          IF c2.relink
          THEN /\ IsLinkTo(c2.post, TargetPathOf(c2), SourcePathOf(c2))
               /\ Reported(c2, "warn", "Relinking")
               /\ Delta(c2, "warnCount") = 1
          ELSE /\ IsLinkTo(c2.post, TargetPathOf(c1), SourcePathOf(c1))
               /\ Reported(c2, "info", "Existing symlink left unchanged")
               /\ Delta(c2, "warnCount") = 0
    /\ NonSymlinkTarget(c2) =>
          IF c2.force THEN IsLinkTo(c2.post, TargetPathOf(c2), SourcePathOf(c2))
          ELSE TargetUntouched(c2)
    /\ Delta(c2, "errorCount") = 0

\* C28 (as amended): when one target path is declared in two sections with two
\* existing sources, RunLink (dry-run off) handles the later declaration by the
\* later section's own policy on what the earlier one left: a link to the
\* earlier source is replaced by a link to the later source under relink=true,
\* with the warning 'Relinking', and stays under relink=false ('Existing symlink
\* left unchanged', no warning); a file the earlier section did not overwrite
\* is overwritten under force=true and stays otherwise. No error is counted and
\* nothing tells that the target was declared twice.
C28_SameTargetTwice ==
    (cmd.name = "link" /\ ~flags.dryRun) =>
        \A i, j \in DOMAIN calls : Conflict(i, j) => LaterByPolicy(calls[i], calls[j])

\* C28 as stated: the later section's source wins whatever its policy is.
C28_AsStated ==
    (cmd.name = "link" /\ ~flags.dryRun) =>
        \A i, j \in DOMAIN calls : Conflict(i, j) => LaterWins(i, j)

\* a run ended in which the first section created the link and the second,
\* under relink=true, replaced it by a link to its own source
C28_Witness ==
    /\ cmd.name = "link" /\ ~flags.dryRun /\ pc.at = "done"
    /\ \E i, j \in DOMAIN calls :
          /\ Conflict(i, j) /\ calls[j].relink
          /\ Reported(calls[i], "success", "Created symlink")
          /\ IsLinkTo(calls[i].post, TargetPathOf(calls[i]), SourcePathOf(calls[i]))
          /\ LaterWins(i, j)
          /\ IsLinkTo(fs, TargetPathOf(calls[j]), SourcePathOf(calls[j]))

(***************************************************************************)
(* C29. Narration is not a control dependency: --quiet, --verbose and      *)
(* --no-color change only what the link command prints. From every state   *)
(* the command reaches, under any of the three, each handler that can run  *)
(* next (a list of hooks, createDirectory, createLink on any declaration   *)
(* left, cloneRepo, runShellCommand) leaves the same filesystem, the same  *)
(* three counters and the same executed hooks as it leaves from the same   *)
(* state with the three flags at their defaults, and every createLink call *)
(* made so far did.                                                        *)
(***************************************************************************)
Loud(w) == [w EXCEPT !.quiet = FALSE, !.verbose = FALSE, !.useColors = TRUE]

Core(w) == <<w.fs, w.successCount, w.warnCount, w.errorCount>>

SameCore(a, b) == Core(a) = Core(b)

\* the hooks of the current phase, from world w: what they leave and which ran
HooksFrom(w) ==
    Bind(runHooks(w, Items(configs[pc.sec], pc.ph), failing, << >>), LAMBDA r :
        <<Core(IF r.err THEN error(r.w, HookFailed[PhaseNames[pc.ph]], << >>) ELSE r.w),
          r.ran, r.err>>)

\* the next item of the current phase
NextItem == Items(configs[pc.sec], pc.ph)[Cardinality(pc.seen) + 1]

\* createLink on declaration idx of the current section, from world w
LinkFrom(w, idx) ==
    Bind(getDefaultOptions(configs[pc.sec]), LAMBDA opt :
        createLink(w, configs[pc.sec].link[idx].target, configs[pc.sec].link[idx].source,
                   opt[1], opt[2], effectiveBackup(opt[3], flags.noBackup)))

C29_NarrationNotControl ==
    /\ cmd.name = "link" =>
        Bind(World(fs, logger), LAMBDA w :
            /\ InPhase(HookPhases) => HooksFrom(w) = HooksFrom(Loud(w))
            /\ InPhase({"create"}) =>
                   SameCore(createDirectory(w, NextItem), createDirectory(Loud(w), NextItem))
            /\ InPhase({"link"}) =>
                   \A idx \in (1..Len(configs[pc.sec].link)) \ pc.seen :
                       SameCore(LinkFrom(w, idx), LinkFrom(Loud(w), idx))
            /\ InPhase({"git"}) =>
                   \A idx \in (1..Len(configs[pc.sec].git)) \ pc.seen :
                       Bind(configs[pc.sec].git[idx], LAMBDA g :
                           SameCore(cloneRepo(w, g.path, g.url \notin failing),
                                    cloneRepo(Loud(w), g.path, g.url \notin failing)))
            /\ InPhase({"shell"}) =>
                   SameCore(runShellCommand(w, NextItem, NextItem.command \notin failing),
                            runShellCommand(Loud(w), NextItem, NextItem.command \notin failing))
            /\ \A q \in {Leave(pc)} : SameCore(Arrive(w, pc, q), Arrive(Loud(w), pc, q)))
    /\ AllCalls(LAMBDA c :
           cmd.name = "link" =>
               Core(World(c.post, c.after)) =
                   Core(createLink(Loud(World(c.pre, c.before)), c.target, c.source,
                                   c.force, c.relink, c.backup)))

\* a quiet run that has ended with a warning, a success and an error counted, and
\* one createLink call of it changed the filesystem and printed nothing
C29_Witness ==
    /\ cmd.name = "link" /\ pc.at = "done" /\ flags.quiet /\ flags.verbose
    /\ logger.warnCount > 0 /\ logger.successCount > 0 /\ logger.errorCount > 0
    /\ SomeCall(LAMBDA c : c.post # c.pre /\ c.after.out = c.before.out
                           /\ c.after.warnCount > c.before.warnCount)

(***************************************************************************)
(* C30. Phase order within a section: RunLink runs, for each section and   *)
(* in this order, the pre_link hooks, the directories of create, the       *)
(* links, the post_link hooks, the git clones, the pre_shell hooks, the    *)
(* shell commands and the post_shell hooks, and finishes every phase of a  *)
(* section before it starts the next section. Every step of the command is *)
(* the handler of the stated phase, leaves a phase only when all its items *)
(* are handled and moves to the next stated phase that has items; a        *)
(* directory of create is handled only while no link of its section or of  *)
(* a later one has been, a link only when every directory of create of its *)
(* section has been; and the hooks, clones and commands a run without      *)
(* --dry-run executed are in the stated order.                             *)
(***************************************************************************)
StatedOrder ==
    <<"pre_link", "create", "link", "post_link", "git", "pre_shell", "shell", "post_shell">>

HandlerOf ==
    [pre_link |-> "runHooks", create |-> "createDirectory", link |-> "createLink",
     post_link |-> "runHooks", git |-> "cloneRepo", pre_shell |-> "runHooks",
     shell |-> "runShellCommand", post_shell |-> "runHooks"]

\* whether section i declares nothing in the stated phases from j to k
Empty(i, j, k) == \A n \in j..k : Len(configs[i][StatedOrder[n]]) = 0

\* whether position q is where the command goes after the last item of phase
\* p.ph of section p.sec
NextStated(p, q) ==
    /\ Empty(p.sec, p.ph + 1, (IF q.at = "link" /\ q.sec = p.sec THEN q.ph - 1 ELSE 8))
    /\ \A i \in (p.sec + 1)..(IF q.at = "link" THEN q.sec - 1 ELSE Len(configs)) :
           Empty(i, 1, 8)
    /\ q.at = "link" /\ q.sec > p.sec => Empty(q.sec, 1, q.ph - 1)
    /\ q.at = "link" => /\ (q.sec > p.sec \/ (q.sec = p.sec /\ q.ph > p.ph))
                        /\ ~Empty(q.sec, q.ph, q.ph)
                        /\ q.seen = {}
    /\ q.at \in {"link", "summary"}

\* the messages of createDirectory
DirectoryMsgs ==
    {"Error checking directory", "Directory already exists",
     "Path exists but is not a directory", "Creating directory"}

\* whether createDirectory has been called on dir
Handled(l, dir) ==
    \E n \in 1..Len(l.narr) :
        l.narr[n][2] \in DirectoryMsgs /\ l.narr[n][3] = expandPath(dir, homeDir)

\* one step of the link command from a position inside RunLink
PhaseStep ==
    (cmd.name = "link" /\ pc.at = "link" /\ pc' # pc) =>
        /\ lastOp' = HandlerOf[StatedOrder[pc.ph]]
        /\ \/ /\ pc'.at = "link" /\ pc'.sec = pc.sec /\ pc'.ph = pc.ph
              /\ pc.seen \subseteq pc'.seen
              /\ Cardinality(pc'.seen) = Cardinality(pc.seen) + 1
              /\ Cardinality(pc'.seen) < Len(configs[pc.sec][StatedOrder[pc.ph]])
           \/ /\ NextStated(pc, pc')
              /\ \/ HandlerOf[StatedOrder[pc.ph]] = "runHooks"
                 \/ Cardinality(pc.seen) + 1 = Len(configs[pc.sec][StatedOrder[pc.ph]])
        /\ lastOp' = "createDirectory" => \A n \in 1..Len(calls) : calls[n].sec < pc.sec
        /\ lastOp' = "createLink" =>
              /\ Len(calls') = Len(calls) + 1
              /\ calls'[Len(calls')].sec = pc.sec
              /\ \A n \in 1..Len(configs[pc.sec].create) :
                     Handled(logger, configs[pc.sec].create[n])

RECURSIVE Flat(_)
Flat(ss) == IF ss = << >> THEN << >> ELSE Head(ss) \o Flat(Tail(ss))

\* the hooks of a list that run: up to the first that fails
RECURSIVE UpToFailure(_)
UpToFailure(hooks) ==
    IF hooks = << >> THEN << >>
    ELSE IF Head(hooks) \in failing THEN <<Head(hooks)>>
    ELSE <<Head(hooks)>> \o UpToFailure(Tail(hooks))

Has(seq, x) == \E n \in 1..Len(seq) : seq[n] = x

\* what a section executes, in the stated order, given the clones that were run
ExecutedBy(cfg) ==
    Externals("hook", UpToFailure(cfg.pre_link))
    \o Externals("hook", UpToFailure(cfg.post_link))
    \o Flat([n \in 1..Len(cfg.git) |->
                IF Has(ran, <<"git", cfg.git[n].url>>) THEN << <<"git", cfg.git[n].url>> >>
                ELSE << >>])
    \o Externals("hook", UpToFailure(cfg.pre_shell))
    \o Externals("shell", [n \in 1..Len(cfg.shell) |-> cfg.shell[n].command])
    \o Externals("hook", UpToFailure(cfg.post_shell))

\* the first command of the session (ran runs on from one command to the next)
StatedExecution ==
    (cmd.name = "link" /\ pc.at = "done" /\ ~flags.dryRun /\ runs = 1) =>
        ran = Flat([i \in 1..Len(configs) |-> ExecutedBy(configs[i])])

C30_PhaseOrder == [][PhaseStep]_vars /\ []StatedExecution

\* a first run without --dry-run over two sections with every phase has ended:
\* both clones ran, and the calls of createLink are those of section 1, then of
\* section 2
C30_Witness ==
    /\ cmd.name = "link" /\ pc.at = "done" /\ ~flags.dryRun /\ Len(configs) = 2
    /\ runs = 1
    /\ \A i \in 1..2 : ~Empty(i, 1, 1) /\ ~Empty(i, 2, 2) /\ ~Empty(i, 8, 8)
    /\ Has(ran, <<"git", "u">>) /\ Has(ran, <<"git", "u2">>)
    /\ Len(calls) = 3 /\ calls[1].sec = 1 /\ calls[3].sec = 2

(***************************************************************************)
(* C31. No removal without a completed backup, as stated: when a           *)
(* createLink call with force=true, an effective backup=true and dry-run   *)
(* off finds a target that is no symbolic link and the backup copy fails,  *)
(* the target is left in place with its content and the call counts an     *)
(* error and no link as made.                                              *)
(***************************************************************************)
BackupFailed(c) ==
    /\ NonSymlinkTarget(c) /\ c.force /\ c.backup /\ ~flags.dryRun
    /\ Reported(c, "error", "Error creating backup")

C31_NoRemovalWithoutBackup ==
    cmd.name = "link" =>
        AllCalls(LAMBDA c : BackupFailed(c) =>
            /\ TargetUntouched(c)
            /\ ~Reported(c, "warn", Removing)
            /\ Delta(c, "errorCount") > 0)

(***************************************************************************)
(* C32. Duplicate removal never orphans the source, as stated: whenever a  *)
(* createLink call removes an entry of the target's directory that was a   *)
(* symbolic link to the source, the declared target is, when the call      *)
(* ends, a symbolic link whose resolved destination is the source.         *)
(***************************************************************************)
AliasRemoved(c) ==
    \E n \in Siblings(c, c.pre) : IsAlias(c, c.pre, n) /\ n \notin Siblings(c, c.post)

C32_NoOrphanedSource ==
    cmd.name = "link" =>
        AllCalls(LAMBDA c :
            AliasRemoved(c) => IsLinkTo(c.post, TargetPathOf(c), SourcePathOf(c)))

(***************************************************************************)
(* C33. Order independence of the result, as stated: for a fixed           *)
(* configuration and initial filesystem, the filesystem and the counters   *)
(* RunLink ends with are the same for every order in which the links of a  *)
(* section are visited. Checked on a single section that declares only     *)
(* links: whatever order the run took, it ends as the run that visits the  *)
(* declarations in declared order.                                         *)
(***************************************************************************)
\* createLink on the declarations of cfg from the n-th on, in declared order
RECURSIVE LinkInOrder(_, _, _)
LinkInOrder(w, cfg, n) ==
    IF n > Len(cfg.link) THEN w
    ELSE Bind(getDefaultOptions(cfg), LAMBDA opt :
             LinkInOrder(createLink(w, cfg.link[n].target, cfg.link[n].source, opt[1], opt[2],
                                    effectiveBackup(opt[3], flags.noBackup)),
                         cfg, n + 1))

LinksOnly ==
    /\ Len(configs) = 1
    /\ \A n \in 1..8 : PhaseNames[n] # "link" => Len(configs[1][PhaseNames[n]]) = 0

C33_OrderIndependence ==
    (cmd.name = "link" /\ pc.at = "done" /\ LinksOnly) =>
        Core(World(fs, logger)) = Core(LinkInOrder(Initialize(fs0, flags), configs[1], 1))

(***************************************************************************)
(* C34. The declared source is never destroyed, as stated: whatever the    *)
(* target (the source itself and a directory above it included) and the    *)
(* policy, after a createLink call on a source that exists, what is at the *)
(* path of the source and beneath it is what it was before the call.       *)
(***************************************************************************)
SourceKey(c) == Lstat(c.pre, SourcePathOf(c)).key

C34_SourceNeverDestroyed ==
    cmd.name = "link" =>
        AllCalls(LAMBDA c :
            SourceExists(c) =>
                Content(c.post, SourceKey(c)) = Content(c.pre, SourceKey(c)))

(***************************************************************************)
(* C35. Reconciler and status agree, as stated: with dry-run off, right    *)
(* after a createLink call that ended its declaration with a correct link  *)
(* (created, relinked, overwritten or already correct), checkLinkStatus    *)
(* for that declaration returns OK; and whenever checkLinkStatus returns   *)
(* OK before a createLink call, the call leaves the target as it was.      *)
(***************************************************************************)
StatusBeforeCall(c) == checkLinkStatus(c.pre, c.target, c.source).Status

StatusAfterCall(c) == checkLinkStatus(c.post, c.target, c.source).Status

LinkedThenOK(c) ==
    (~flags.dryRun /\ c.after.outcome \in CorrectOutcomes) => StatusAfterCall(c) = StatusOK

OKThenKept(c) ==
    StatusBeforeCall(c) = StatusOK =>
        /\ TargetAfter(c) = TargetBefore(c)
        /\ ~Reported(c, "info", "Creating symlink")

C35_ReconcilerStatusAgree ==
    cmd.name = "link" => AllCalls(LAMBDA c : LinkedThenOK(c) /\ OKThenKept(c))

(***************************************************************************)
(* C36. One outcome, one count, as stated: with dry-run off every          *)
(* createLink call adds one to exactly one of the success, warning and     *)
(* error counters and nothing to the other two, and a run of RunLink over  *)
(* a section that declares only links ends with the three counters summing *)
(* to the number of its declarations.                                      *)
(***************************************************************************)
Counted(c) == Delta(c, "successCount") + Delta(c, "warnCount") + Delta(c, "errorCount")

C36_OneOutcomeOneCount ==
    (cmd.name = "link" /\ ~flags.dryRun) =>
        /\ AllCalls(LAMBDA c : Counted(c) = 1)
        /\ (pc.at = "done" /\ LinksOnly) =>
               logger.successCount + logger.warnCount + logger.errorCount
                   = Len(configs[1].link)

(***************************************************************************)
(* C37. Link / unlink --restore round trip, as stated: when link with      *)
(* force=true, an effective backup=true and dry-run off has processed a    *)
(* configuration of one declaration whose target was absent, a regular     *)
(* file or a directory, whatever the backup directory held, and            *)
(* unlink --restore has run next, the target is what it was before link:   *)
(* absent, or the file or directory with its original content.             *)
(***************************************************************************)
RoundTrip ==
    /\ cmd.name = "unlink" /\ cmd.restore /\ pc.at = "done" /\ ~flags.dryRun
    /\ prev.cmd.name = "link" /\ Len(prev.calls) = 1

TargetKeyOf(c) == Split(Clean(TargetPathOf(c)))

C37_LinkUnlinkRoundTrip ==
    RoundTrip =>
        \A i \in DOMAIN prev.calls :
            Bind(prev.calls[i], LAMBDA c :
                (c.force /\ c.backup /\ (AbsentTarget(c) \/ NonSymlinkTarget(c))) =>
                    Content(fs, TargetKeyOf(c)) = Content(c.pre, TargetKeyOf(c)))

====
